---------------------------- MODULE Spec2Model ----------------------------
(***************************************************************************)
(* Model of the tolerant tabular loader of the college comparison page     *)
(* (static/js/comparision.js): the CSV parser parseCSV / splitCSVLine,     *)
(* the tolerant accessor getVal and the name normaliser normalizeName,     *)
(* the loader loadAll with the events of the comparison page, of the       *)
(* explore page (part_000) loadDetails and the authentication modal, and   *)
(* of the recommendations page (part_001) the form and applyClientSort.    *)
(*                                                                         *)
(* A JavaScript string is modelled as a sequence of one-character strings, *)
(* so that splitting, trimming, quote stripping and lower-casing are       *)
(* computed character by character as the code computes them.              *)
(***************************************************************************)
EXTENDS Integers, Sequences, FiniteSets, TLC

---------------------------------------------------------------------------
(* Characters *)

LF == "\n"
CR == "\r"
TAB == "\t"
SP == " "
QUOTE == "\""
COMMA == ","

\* The characters String.prototype.trim strips and the regular expression
\* class \s matches (those that occur in the modelled inputs).
WhiteSpace == {SP, TAB, LF, CR}

UpperLetters ==
  <<"A","B","C","D","E","F","G","H","I","J","K","L","M",
    "N","O","P","Q","R","S","T","U","V","W","X","Y","Z">>

LowerLetters ==
  <<"a","b","c","d","e","f","g","h","i","j","k","l","m",
    "n","o","p","q","r","s","t","u","v","w","x","y","z">>

\* String.prototype.toLowerCase on one character.
toLowerCaseChar(c) ==
  IF \E k \in 1..26 : UpperLetters[k] = c
    THEN LowerLetters[CHOOSE k \in 1..26 : UpperLetters[k] = c]
    ELSE c

\* String.prototype.toLowerCase.
toLowerCase(s) == [k \in 1..Len(s) |-> toLowerCaseChar(s[k])]

\* String.prototype.trim: drops the leading and the trailing white space.
trim(s) ==
  LET keep == {k \in 1..Len(s) : s[k] \notin WhiteSpace}
  IN  IF keep = {} THEN <<>>
      ELSE LET lo == CHOOSE k \in keep : \A m \in keep : k <= m
               hi == CHOOSE k \in keep : \A m \in keep : k >= m
           IN  SubSeq(s, lo, hi)

\* Concatenation of a sequence of strings, sep between neighbours.
RECURSIVE Join(_, _)
Join(parts, sep) ==
  IF parts = <<>> THEN <<>>
  ELSE IF Len(parts) = 1 THEN parts[1]
  ELSE parts[1] \o sep \o Join(Tail(parts), sep)

---------------------------------------------------------------------------
(* text.split(/\r?\n/) *)

\* The lines of text: a line ends at each LF, and a CR right before that LF
\* belongs to the terminator. cur is the line being collected.
RECURSIVE SplitFrom(_, _, _, _)
SplitFrom(text, k, cur, acc) ==
  IF k > Len(text) THEN Append(acc, cur)
  ELSE IF text[k] = LF
    THEN SplitFrom(text, k + 1, <<>>,
           Append(acc, IF cur # <<>> /\ cur[Len(cur)] = CR
                         THEN SubSeq(cur, 1, Len(cur) - 1)
                         ELSE cur))
    ELSE SplitFrom(text, k + 1, Append(cur, text[k]), acc)

splitLines(text) == SplitFrom(text, 1, <<>>, <<>>)

---------------------------------------------------------------------------
(* splitCSVLine *)

\* The loop of splitCSVLine from character k on: out is the fields pushed so
\* far, cur the field being collected, inQ the in-quotes flag.
RECURSIVE SplitCSVFrom(_, _, _, _, _)
SplitCSVFrom(ln, k, out, cur, inQ) ==
  IF k > Len(ln) THEN Append(out, cur)
  ELSE IF ln[k] = QUOTE THEN SplitCSVFrom(ln, k + 1, out, cur, ~inQ)
  ELSE IF ln[k] = COMMA /\ ~inQ
    THEN SplitCSVFrom(ln, k + 1, Append(out, cur), <<>>, inQ)
  ELSE SplitCSVFrom(ln, k + 1, out, Append(cur, ln[k]), inQ)

\* splitCSVLine as it would be if a doubled quote were unescaped to a literal
\* quote.
RECURSIVE SplitCSVUnescapingFrom(_, _, _, _, _)
SplitCSVUnescapingFrom(ln, k, out, cur, inQ) ==
  IF k > Len(ln) THEN Append(out, cur)
  ELSE IF ln[k] = QUOTE /\ inQ /\ k < Len(ln) /\ ln[k + 1] = QUOTE
    THEN SplitCSVUnescapingFrom(ln, k + 2, out, Append(cur, QUOTE), inQ)
  ELSE IF ln[k] = QUOTE THEN SplitCSVUnescapingFrom(ln, k + 1, out, cur, ~inQ)
  ELSE IF ln[k] = COMMA /\ ~inQ
    THEN SplitCSVUnescapingFrom(ln, k + 1, Append(out, cur), <<>>, inQ)
  ELSE SplitCSVUnescapingFrom(ln, k + 1, out, Append(cur, ln[k]), inQ)

splitCSVLineUnescaping(ln) == SplitCSVUnescapingFrom(ln, 1, <<>>, <<>>, FALSE)

\* splitCSVLine as it would be if it split at every comma, quoted or not.
RECURSIVE SplitEveryCommaFrom(_, _, _, _)
SplitEveryCommaFrom(ln, k, out, cur) ==
  IF k > Len(ln) THEN Append(out, cur)
  ELSE IF ln[k] = QUOTE THEN SplitEveryCommaFrom(ln, k + 1, out, cur)
  ELSE IF ln[k] = COMMA
    THEN SplitEveryCommaFrom(ln, k + 1, Append(out, cur), <<>>)
  ELSE SplitEveryCommaFrom(ln, k + 1, out, Append(cur, ln[k]))

splitCSVLineEveryComma(ln) == SplitEveryCommaFrom(ln, 1, <<>>, <<>>)

splitCSVLine(ln) == SplitCSVFrom(ln, 1, <<>>, <<>>, FALSE)

\* (line.match(/"/g) || []).length
quoteCount(ln) == Cardinality({k \in 1..Len(ln) : ln[k] = QUOTE})

---------------------------------------------------------------------------
(* Row objects *)

\* A row object: keys is Object.keys (insertion order), val the own
\* properties.
EmptyObj == [keys |-> <<>>, val |-> <<>>]

\* The property name whose assignment on a plain object goes to the
\* inherited Object.prototype accessor instead of creating an own property.
ProtoName == <<"_","_","p","r","o","t","o","_","_">>

OwnKeys(obj) == {obj.keys[k] : k \in 1..Len(obj.keys)}

\* obj[k] = v on a plain object holding string values: a new key is appended
\* to the key order (no key of the model is an array index, which would come
\* first), an existing one keeps its place, and a string assigned to
\* __proto__ is ignored by the inherited setter.
setProp(obj, k, v) ==
  IF k = ProtoName THEN obj
  ELSE IF k \in OwnKeys(obj)
    THEN [keys |-> obj.keys,
          val  |-> [x \in OwnKeys(obj) |-> IF x = k THEN v ELSE obj.val[x]]]
    ELSE [keys |-> Append(obj.keys, k),
          val  |-> [x \in OwnKeys(obj) \cup {k} |->
                      IF x = k THEN v ELSE obj.val[x]]]

\* for(j...) obj[headers[j].trim()] = cols[j].trim()
RECURSIVE zipRow(_, _, _, _)
zipRow(headers, cols, j, obj) ==
  IF j > Len(headers) THEN obj
  ELSE zipRow(headers, cols, j + 1,
              setProp(obj, trim(headers[j]), trim(cols[j])))


---------------------------------------------------------------------------
(* parseCSV *)

\* pushRecord as it would be if a short or long record were padded or
\* truncated to the header instead of discarded.
pushRecordPadded(headers, buf, outRows) ==
  LET cols == splitCSVLine(buf)
      fit  == [j \in 1..Len(headers) |->
                 IF j <= Len(cols) THEN cols[j] ELSE <<>>]
  IN  Append(outRows, zipRow(headers, fit, 1, EmptyObj))

\* pushRecord as it would be if a record equal to one already returned were
\* left out.
pushRecordUnique(headers, buf, outRows) ==
  LET cols == splitCSVLine(buf)
      row  == zipRow(headers, cols, 1, EmptyObj)
  IN  IF Len(cols) = Len(headers)
           /\ \A r \in 1..Len(outRows) : outRows[r] # row
        THEN Append(outRows, row)
        ELSE outRows

\* Lines 33-38: the completed record buf is split; a record with as many
\* fields as the header becomes a row, any other record is discarded.
pushRecord(headers, buf, outRows) ==
  LET cols == splitCSVLine(buf)
  IN  IF Len(cols) = Len(headers)
        THEN Append(outRows, zipRow(headers, cols, 1, EmptyObj))
        ELSE outRows

\* loopBody as it would be if every physical line were taken as a complete
\* record, without the quote count.
loopBodyLineByLine(headers, lines, i, line, outRows) ==
  [line |-> <<>>, outRows |-> pushRecord(headers, lines[i + 1], outRows)]

\* loopBody as it would be if a buffer were complete when its quote count
\* is odd.
loopBodyOddComplete(headers, lines, i, line, outRows) ==
  LET buf == line \o lines[i + 1]
  IN  IF quoteCount(buf) % 2 = 0
        THEN [line |-> buf \o <<LF>>, outRows |-> outRows]
        ELSE [line |-> <<>>, outRows |-> pushRecord(headers, buf, outRows)]

\* Lines 23-39, one iteration of the loop at index i (the JavaScript index
\* into lines, whose element is lines[i + 1] here): the new buffer and rows.
loopBody(headers, lines, i, line, outRows) ==
  LET buf == line \o lines[i + 1]
  IN  IF quoteCount(buf) % 2 # 0
        THEN [line |-> buf \o <<LF>>, outRows |-> outRows]
        ELSE [line |-> <<>>, outRows |-> pushRecord(headers, buf, outRows)]

\* firstIndex as it would be if the loop did not skip the header line.
firstIndexZero == 1 - 1

\* Line 22: the loop starts after the header line.
firstIndex == 1

\* The loop of parseCSV from index i on.
RECURSIVE parseLoop(_, _, _, _, _)
parseLoop(headers, lines, i, line, outRows) ==
  IF i >= Len(lines) THEN outRows
  ELSE LET st == loopBody(headers, lines, i, line, outRows)
       IN  parseLoop(headers, lines, i + 1, st.line, st.outRows)

parseCSV(text) ==
  LET lines == splitLines(text)
  IN  parseLoop(splitCSVLine(lines[1]), lines, firstIndex, <<>>, <<>>)

---------------------------------------------------------------------------
(* getVal *)

\* Names every plain object inherits from Object.prototype (those that occur
\* among the candidate names of the model).
ObjectPrototypeNames == { ProtoName, <<"t","o","S","t","r","i","n","g">> }

\* What reading an inherited member yields: an object, not a string.
InheritedMember == << "[Object.prototype member]" >>

\* n in row
hasProperty(row, n) == n \in OwnKeys(row) \/ n \in ObjectPrototypeNames

\* row[n]
getProp(row, n) == IF n \in OwnKeys(row) THEN row.val[n] ELSE InheritedMember

\* Lines 64-67: the value of the first key, in Object.keys order, that equals
\* n up to letter case; found says whether there is one.
lookupIgnoreCase(row, n) ==
  LET lower == toLowerCase(n)
      hits  == {k \in 1..Len(row.keys) : toLowerCase(row.keys[k]) = lower}
  IN  IF hits = {} THEN [found |-> FALSE, value |-> <<>>]
      ELSE [found |-> TRUE,
            value |-> row.val[row.keys[CHOOSE k \in hits :
                                          \A m \in hits : k <= m]]]

\* The loop of getVal from candidate n on.
RECURSIVE getValFrom(_, _, _)
getValFrom(row, names, n) ==
  IF n > Len(names) THEN <<>>
  ELSE IF hasProperty(row, names[n]) THEN getProp(row, names[n])
  ELSE IF lookupIgnoreCase(row, names[n]).found
    THEN lookupIgnoreCase(row, names[n]).value
  ELSE getValFrom(row, names, n + 1)

\* getVal as it would be if it matched keys exactly only.
getValExactOnly(row, names) ==
  IF \E n \in 1..Len(names) : hasProperty(row, names[n])
    THEN getProp(row, names[CHOOSE n \in 1..Len(names) :
                        /\ hasProperty(row, names[n])
                        /\ \A m \in 1..(n - 1) : ~hasProperty(row, names[m])])
    ELSE <<>>

\* getVal as it would be if it tried every candidate exactly before trying
\* any candidate case-insensitively.
getValExactPassFirst(row, names) ==
  IF \E n \in 1..Len(names) : hasProperty(row, names[n])
    THEN getValExactOnly(row, names)
    ELSE getValFrom(row, names, 1)

getVal(row, names) == getValFrom(row, names, 1)

---------------------------------------------------------------------------
(* normalizeName *)

Undefined == [type |-> "undefined"]
Null == [type |-> "null"]
Str(s) == [type |-> "string", chars |-> s]

\* replace(/\s+/g, ' '): every maximal run of white space becomes one space.
RECURSIVE collapseFrom(_, _, _)
collapseFrom(s, k, acc) ==
  IF k > Len(s) THEN acc
  ELSE IF s[k] \in WhiteSpace
    THEN IF k > 1 /\ s[k - 1] \in WhiteSpace
           THEN collapseFrom(s, k + 1, acc)
           ELSE collapseFrom(s, k + 1, Append(acc, SP))
  ELSE collapseFrom(s, k + 1, Append(acc, s[k]))

collapseSpaces(s) == collapseFrom(s, 1, <<>>)

\* normalizeName as it would be without the replace of white-space runs.
normalizeNameNoCollapse(v) ==
  IF v = Undefined \/ v = Null THEN <<>>
  ELSE toLowerCase(trim(v.chars))

normalizeName(v) ==
  IF v = Undefined \/ v = Null THEN <<>>
  ELSE toLowerCase(collapseSpaces(trim(v.chars)))

---------------------------------------------------------------------------
(* Inputs of the parser *)

\* The most records a generated text holds after its header.
MaxRecords == 3

\* Header lines, each with the column names it is written to declare.
HeaderLines ==
  { [line |-> <<"h">>, names |-> << <<"h">> >>],
    [line |-> <<SP,"h",SP,COMMA,"K",TAB>>, names |-> << <<"h">>, <<"K">> >>],
    [line |-> <<"h",COMMA,"H">>, names |-> << <<"h">>, <<"H">> >>],
    [line |-> <<"h",COMMA,"h">>, names |-> << <<"h">>, <<"h">> >>],
    [line |-> <<QUOTE,"h",COMMA,"k",QUOTE>>,
     names |-> << <<"h",COMMA,"k">> >>] }

\* Logical records: the physical lines of each (a quoted field may run over
\* a line break) and the trimmed field values it is written to hold.
RecordForms ==
  { [lines |-> << <<"a">> >>, fields |-> << <<"a">> >>],
    [lines |-> << <<>> >>, fields |-> << <<>> >>],
    [lines |-> << <<SP,"a",SP,COMMA,"b",SP>> >>,
     fields |-> << <<"a">>, <<"b">> >>],
    [lines |-> << <<QUOTE,"a",COMMA,"b",QUOTE>> >>,
     fields |-> << <<"a",COMMA,"b">> >>],
    [lines |-> << <<QUOTE,"a">>, <<"b",QUOTE,COMMA,"c">> >>,
     fields |-> << <<"a",LF,"b">>, <<"c">> >>],
    [lines |-> << <<QUOTE,"a">>, <<"b",QUOTE>> >>,
     fields |-> << <<"a",LF,"b">> >>],
    [lines |-> << <<QUOTE,"a",QUOTE,QUOTE,"b",QUOTE>> >>,
     fields |-> << <<"a","b">> >>],
    [lines |-> << <<"a",COMMA,"b",COMMA,"c">> >>,
     fields |-> << <<"a">>, <<"b">>, <<"c">> >>] }

\* What may follow the last record: nothing, or lines whose quote is never
\* closed.
DanglingTails ==
  { <<>>, << <<QUOTE,"a">>, <<"b",COMMA,"c">> >> }

LineEnds == { <<LF>>, <<CR,LF>> }

RECURSIVE SeqsUpTo(_, _)
SeqsUpTo(S, n) ==
  IF n = 0 THEN { <<>> }
  ELSE LET shorter == SeqsUpTo(S, n - 1)
       IN  shorter \cup { Append(q, x) : q \in shorter, x \in S }

GeneratedInputs ==
  [header : HeaderLines, recs : SeqsUpTo(RecordForms, MaxRecords),
   tail : DanglingTails, eol : LineEnds, trail : BOOLEAN]

\* The physical lines of a sequence of records, in order.
RECURSIVE PhysicalLines(_)
PhysicalLines(recs) ==
  IF recs = <<>> THEN <<>> ELSE recs[1].lines \o PhysicalLines(Tail(recs))

\* The text of an input: its lines joined by its line terminator, with a
\* final terminator when trail is set.
Render(in) ==
  Join(<<in.header.line>> \o PhysicalLines(in.recs) \o in.tail, in.eol)
    \o (IF in.trail THEN in.eol ELSE <<>>)

\* The text of the end-to-end example: Institute,Program / A,X / B,Y.
InstituteProgramHeader ==
  [line  |-> <<"I","n","s","t","i","t","u","t","e",COMMA,
               "P","r","o","g","r","a","m">>,
   names |-> << <<"I","n","s","t","i","t","u","t","e">>,
                <<"P","r","o","g","r","a","m">> >>]

RecordAX == [lines |-> << <<"A",COMMA,"X">> >>, fields |-> << <<"A">>, <<"X">> >>]
RecordBY == [lines |-> << <<"B",COMMA,"Y">> >>, fields |-> << <<"B">>, <<"Y">> >>]

EndToEndInput ==
  [header |-> InstituteProgramHeader, recs |-> <<RecordAX, RecordBY>>,
   tail |-> <<>>, eol |-> <<LF>>, trail |-> FALSE]

\* A one-column and a two-column table with a record whose quoted field runs
\* over a line break, between two single-line records.
OneColumnHeader == [line |-> <<"h">>, names |-> << <<"h">> >>]
TwoColumnHeader ==
  [line |-> <<SP,"h",SP,COMMA,"K",TAB>>, names |-> << <<"h">>, <<"K">> >>]

RecordA == [lines |-> << <<"a">> >>, fields |-> << <<"a">> >>]
RecordAB ==
  [lines |-> << <<SP,"a",SP,COMMA,"b",SP>> >>, fields |-> << <<"a">>, <<"b">> >>]
MultiLineOne ==
  [lines |-> << <<QUOTE,"a">>, <<"b",QUOTE>> >>, fields |-> << <<"a",LF,"b">> >>]
MultiLineTwo ==
  [lines |-> << <<QUOTE,"a">>, <<"b",QUOTE,COMMA,"c">> >>,
   fields |-> << <<"a",LF,"b">>, <<"c">> >>]

MultiLineInputs ==
  [header : {OneColumnHeader}, recs : { <<RecordA, MultiLineOne, RecordA>> },
   tail : { <<>> }, eol : LineEnds, trail : BOOLEAN]
  \cup
  [header : {TwoColumnHeader}, recs : { <<RecordAB, MultiLineTwo, RecordAB>> },
   tail : { <<>> }, eol : LineEnds, trail : BOOLEAN]

\* A table one of whose columns is named __proto__.
ProtoHeader ==
  [line  |-> ProtoName \o <<COMMA,"h">>, names |-> <<ProtoName, <<"h">> >>]

ProtoInput ==
  [header |-> ProtoHeader, recs |-> <<RecordAB, RecordAB, RecordAB>>,
   tail |-> <<>>, eol |-> <<LF>>, trail |-> FALSE]

Inputs == GeneratedInputs \cup MultiLineInputs \cup {EndToEndInput, ProtoInput}

---------------------------------------------------------------------------
(* Inputs of the accessors *)

\* Line 200: the candidate names renderBasicInfo reads the college name by.
CollegeNameCandidates ==
  << <<"c","o","l","l","e","g","e","_","n","a","m","e">>,
     <<"C","o","l","l","e","g","e","_","n","a","m","e">>,
     <<"c","o","l","l","e","g","e">>,
     <<"C","o","l","l","e","g","e">>,
     <<"I","n","s","t","i","t","u","t","e">>,
     <<"i","n","s","t","i","t","u","t","e">>,
     <<"n","a","m","e">>,
     <<"N","a","m","e">>,
     <<"i","n","s","t","i","t","u","t","i","o","n">>,
     <<"I","n","s","t","i","t","u","t","i","o","n">>,
     <<"i","n","s","t","i","t","u","t","e","_","n","a","m","e">> >>

\* Tables that hold the same institutes under differently named headers.
CollegeNameHeader ==
  [line |-> <<"C","o","l","l","e","g","e","_","N","a","m","e",COMMA,"P","r","o","g","r","a","m">>,
   names |-> << <<"C","o","l","l","e","g","e","_","N","a","m","e">>, <<"P","r","o","g","r","a","m">> >>]
UpperInstituteHeader ==
  [line |-> <<"I","N","S","T","I","T","U","T","E",COMMA,"p","r","o","g","r","a","m">>,
   names |-> << <<"I","N","S","T","I","T","U","T","E">>, <<"p","r","o","g","r","a","m">> >>]
LowerCollegeNameHeader ==
  [line |-> <<"c","o","l","l","e","g","e","_","n","a","m","e",COMMA,"P","R","O","G","R","A","M">>,
   names |-> << <<"c","o","l","l","e","g","e","_","n","a","m","e">>, <<"P","R","O","G","R","A","M">> >>]
CaseCollidingHeader ==
  [line |-> <<"h",COMMA,"H">>, names |-> << <<"h">>, <<"H">> >>]

RecordEmptyFields ==
  [lines |-> << <<COMMA>> >>, fields |-> << <<>>, <<>> >>]

AccessorInputs ==
  [header : {InstituteProgramHeader, CollegeNameHeader, UpperInstituteHeader,
             LowerCollegeNameHeader},
   recs : { <<RecordAX, RecordBY>> },
   tail : { <<>> }, eol : { <<LF>> }, trail : {FALSE}]
  \cup
  [header : {TwoColumnHeader, CaseCollidingHeader},
   recs : { <<RecordAB, RecordEmptyFields>> },
   tail : { <<>> }, eol : { <<CR, LF>> }, trail : {TRUE}]

\* The candidate lists getVal is called with.
CandidateLists ==
  { CollegeNameCandidates,
    << <<"i","n","s","t","i","t","u","t","e">>, <<"c","o","l","l","e","g","e","_","n","a","m","e">> >>,
    << <<"C","O","L","L","E","G","E","_","N","A","M","E">>, <<"I","N","S","T","I","T","U","T","E">> >>,
    << <<"I","n","s","t","i","t","u","t","e">> >>, << <<SP,"I","n","s","t","i","t","u","t","e">> >>, << <<"p","r","o","g","r","a","m">> >>,
    << <<"p","r","o","g","r","a","m">>, <<"I","n","s","t","i","t","u","t","e">> >>,
    << <<"h">> >>, << <<"H">> >>, << <<"k">> >>, << <<"h",SP>> >>,
    << <<"k">>, <<"h">> >>, << <<"x">>, <<"K">> >>, << <<"x">> >>,
    << <<"t","o","S","t","r","i","n","g">> >>, <<>> }

\* The longest string normalizeName is called with.
MaxNameLen == 4

NameChars == {"a", "B", SP, TAB}

NameStrings == UNION {[1..n -> NameChars] : n \in 0..MaxNameLen}

NormalizeArgs == {Undefined, Null} \cup {Str(s) : s \in NameStrings}

---------------------------------------------------------------------------
(* State *)

VARIABLES
  input,     \* the description the text was rendered from
  text,      \* the argument of parseCSV
  pc,        \* "start", "loop" (inside the for loop) or "done" (returned)
  headers,   \* const headers
  lines,     \* let lines
  i,         \* the loop index
  line,      \* the record buffer
  outRows,   \* const outRows
  call,      \* the last call of getVal, normalizeName or renderBasicInfo,
             \* with its result
  loadPc,    \* loadAll: "idle" (not called), the await it is suspended
             \* at ("ranks", "college", "placement", "reviews") or "done"
  net,       \* per CSV file, what the network has done with its request
  rankData,  \* const rankData: year -> rows, a year absent until written
  collegeData,    \* let collegeData
  placementData,  \* let placementData
  reviewsData,    \* let reviewsData
  populated,      \* the calls of populateInstituteProgramLists so far
  options,        \* the option values of the institute and program selects
  selected,       \* the value of each of the four selects
  disabled,       \* compareBtn.disabled
  timerPending,   \* the 100 ms timer of the startup handler has not fired
  compareListeners, \* the click listeners added by line 156
  panels,         \* what the last doCompare rendered, or NoPanels
  earlyReads,     \* the reads of a slot its fetch had not yet written
  compared,         \* the text and class of the ten numeric elements of each
                  \* side, and the stars of each side
  enabledClass,   \* compareBtn.classList contains 'enabled'
  clickRuns,      \* the calls of doCompare the last click made
  detailCalls, \* the calls of loadDetails, oldest first, those that were
               \* over when the newest was made left out; of each its
               \* argument (name), where it stands (pc: the await it is
               \* suspended at, "all", "details", "reviews" or "placement",
               \* or "rendered" or "failed") and what the network has done
               \* with each of its requests (net)
  selName,     \* selName.textContent
  view,        \* the text of the elements loadDetails writes
  isLoginMode, \* let isLoginMode
  submitLabel,     \* authSubmitBtn.textContent
  toggleLinkText,  \* the text of the element with id toggle-to-signup
  toggleListeners, \* the click listeners of that element
  sent,        \* the requests sent by the authentication modal, in order
  inflight,    \* the indexes in sent of the requests not yet answered
  alerts,      \* the alert dialogs shown so far, in order
  reloaded,    \* window.location.reload() has been called
  lastEvent,   \* the event or response the last step handled
  LAST_RESULTS, \* the array of that name of the recommendations page
  resultsList, \* what the element results-list shows
  sortMetric,  \* the value of the select client_sort_metric
  recRequests, \* the recommendation requests, oldest first, those that were
               \* over when the newest was sent left out; of each its
               \* program, where its listener call stands (st: awaiting
               \* "fetch" or "json", "done" or "failed") and its response
  recMessage   \* the message area

parserVars == <<input, text, pc, headers, lines, i, line, outRows>>
loadVars ==
  <<loadPc, net, rankData, collegeData, placementData, reviewsData,
    populated, options, selected, disabled, timerPending, compareListeners,
    panels, earlyReads, compared, enabledClass, clickRuns>>
detailVars == <<detailCalls, selName, view>>
authVars ==
  <<isLoginMode, submitLabel, toggleLinkText, toggleListeners, sent, inflight,
    alerts, reloaded, lastEvent>>
recVars == <<LAST_RESULTS, resultsList, sortMetric, recRequests, recMessage>>
vars ==
  <<input, text, pc, headers, lines, i, line, outRows, call, loadVars,
    detailVars, authVars, recVars>>

NoCall == [fn |-> "none"]

---------------------------------------------------------------------------
(* loadAll and the events of the comparison page *)

\* Lines 3-7: the years, the rank file of each year, the three other files.
YEARS == <<2021, 2022, 2023, 2024, 2025>>
RANK_FILES ==
  <<"rank_2021.csv", "rank_2022.csv", "rank_2023.csv", "rank_2024.csv",
    "rank_2025.csv">>
COLLEGE_FILE == "college.csv"
PLACEMENT_FILE == "placement.csv"
REVIEWS_FILE == "reviews.csv"

RankFiles == {RANK_FILES[k] : k \in 1..Len(RANK_FILES)}
Files == RankFiles \cup {COLLEGE_FILE, PLACEMENT_FILE, REVIEWS_FILE}

\* The idx of a rank file in RANK_FILES.map (counted from 1).
idxOf(f) == CHOOSE k \in 1..Len(RANK_FILES) : RANK_FILES[k] = f

\* yearOf as it would be if every rank loader wrote the slot of the first
\* year.
yearOfFirst(f) == YEARS[1]

\* Lines 91, 94: the key of rankData a rank loader writes, YEARS[idx].
yearOf(f) == YEARS[idxOf(f)]

\* What the server holds under each file name: the rank file of the idx-th
\* year has idx records, the three other files differ in their header.
FileInput(f) ==
  IF f \in RankFiles
    THEN [header |-> InstituteProgramHeader,
          recs |-> [j \in 1..idxOf(f) |-> RecordAX],
          tail |-> <<>>, eol |-> <<LF>>, trail |-> FALSE]
  ELSE IF f = COLLEGE_FILE
    THEN [header |-> LowerCollegeNameHeader, recs |-> <<RecordAX>>,
          tail |-> <<>>, eol |-> <<CR, LF>>, trail |-> TRUE]
  ELSE IF f = PLACEMENT_FILE
    THEN [header |-> UpperInstituteHeader, recs |-> <<RecordAX>>,
          tail |-> <<>>, eol |-> <<LF>>, trail |-> FALSE]
  ELSE [header |-> CollegeNameHeader, recs |-> <<RecordAX, RecordBY>>,
        tail |-> <<>>, eol |-> <<LF>>, trail |-> TRUE]

\* The body of a response with an error status: a two-line error page.
NotFoundInput ==
  [header |-> [line  |-> <<"<","h","1",">","4","0","4","<","/","h","1",">">>,
               names |-> << <<"<","h","1",">","4","0","4","<","/","h","1",">">> >>],
   recs |-> << [lines  |-> << <<"N","o","t",SP,"F","o","u","n","d">> >>,
                fields |-> << <<"N","o","t",SP,"F","o","u","n","d">> >> ] >>,
   tail |-> <<>>, eol |-> <<LF>>, trail |-> FALSE]

\* The responses fetch may resolve with: the file, or an error status with
\* an error page (fetch resolves on any HTTP status).
Responses(f) ==
  { [ok |-> TRUE, in |-> FileInput(f)], [ok |-> FALSE, in |-> NotFoundInput] }

\* The most files of one page load whose request does not end in a
\* successful response that is read to its end.
MaxFailures == 1

\* The states of a request.
NotRequested == [st |-> "none"]
Requested == [st |-> "requested"]
Rejected == [st |-> "rejected"]

Settled(n) == n.st \in {"rejected", "bodyRejected", "bodyRead"}

Abnormal(n) ==
  \/ n.st \in {"rejected", "bodyRejected"}
  \/ n.st \in {"response", "bodyRead"} /\ ~n.ok

\* Promise.all as it would be if it resolved with the first settled loader.
ranksAwaitedAny(n) == \E f \in RankFiles : Settled(n[f])

\* Line 87: await Promise.all(...) resumes loadAll when every rank loader
\* has settled (no loader rejects: each catches its own failure).
ranksAwaited(n) == \A f \in RankFiles : Settled(n[f])

\* obj[y] = rows on the object rankData.
setYear(rd, y, rows) ==
  [z \in (DOMAIN rd) \cup {y} |-> IF z = y THEN rows ELSE rd[z]]

\* Lines 112-113: the candidate names of the institute and program columns.
InstituteCandidates ==
  << <<"I","n","s","t","i","t","u","t","e">>,
     <<"i","n","s","t","i","t","u","t","e">>,
     <<"c","o","l","l","e","g","e">>,
     <<"C","o","l","l","e","g","e">>,
     <<"I","N","S","T","I","T","U","T","E">> >>
ProgramCandidates ==
  << <<"P","r","o","g","r","a","m">>,
     <<"p","r","o","g","r","a","m">>,
     <<"c","o","u","r","s","e">>,
     <<"C","o","u","r","s","e">> >>

\* Lines 108-119: the distinct non-empty values of a column over the rank
\* tables of all years (a set: the sort order of the options is left out).
columnValues(rd, names) ==
  UNION { { getVal(rd[y][k], names) : k \in 1..Len(rd[y]) } : y \in DOMAIN rd }
    \ { <<>> }

SelectIds == {"instituteA", "programA", "instituteB", "programB"}

\* The values the user can give a select: those of its options.
OptionValues(opts, id) ==
  IF id \in {"instituteA", "instituteB"} THEN opts.institute ELSE opts.program

\* checkEnableCompare as it would be if it always enabled the button.
checkEnableCompareAlways(sel) == FALSE

\* Lines 159-173: the value checkEnableCompare gives compareBtn.disabled.
checkEnableCompare(sel) == ~(\A id \in SelectIds : sel[id] # <<>>)

\* Lines 176-191, 198, 257, 263, 350: the slots, named by the file that
\* fills them, read by each function doCompare calls.
SlotsRead ==
  [renderBasicInfo |-> {COLLEGE_FILE},
   renderPlacementAndReview |-> {PLACEMENT_FILE, REVIEWS_FILE},
   updateChartForSide |-> RankFiles]

NoPanels == [id \in SelectIds |-> <<>>]

---------------------------------------------------------------------------
(* renderPlacementAndReview, renderStars and compareNumericPairs *)

Digits == <<"0", "1", "2", "3", "4", "5", "6", "7", "8", "9">>

IsDigit(c) == \E k \in 1..Len(Digits) : Digits[k] = c

digitValue(c) == (CHOOSE k \in 1..Len(Digits) : Digits[k] = c) - 1

\* The number a run of decimal digits denotes.
RECURSIVE natOf(_)
natOf(ds) ==
  IF ds = <<>> THEN 0
  ELSE 10 * natOf(SubSeq(ds, 1, Len(ds) - 1)) + digitValue(ds[Len(ds)])

\* Numbers are kept in hundredths (the texts of the model have at most two
\* decimals); NaN is the value that is not a number.
NaN == [nan |-> TRUE]
Num(h) == [nan |-> FALSE, hundredths |-> h]

\* The last index of the run of digits of s that starts at k (k - 1 when
\* s has no digit at k).
runEnd(s, k) ==
  CHOOSE m \in (k - 1)..Len(s) :
    /\ \A j \in k..m : IsDigit(s[j])
    /\ m = Len(s) \/ ~IsDigit(s[m + 1])

\* parseFloat of a string: leading white space, an optional sign, digits
\* with an optional fraction; what follows is ignored, and a string without
\* a digit there is NaN.  (Exponents and "Infinity" do not occur in the
\* texts of the model.)
parseFloat(str) ==
  LET s      == trim(str)
      signed == s # <<>> /\ s[1] \in {"-", "+"}
      a      == IF signed THEN 2 ELSE 1
      ie     == runEnd(s, a)
      hasDot == ie < Len(s) /\ s[ie + 1] = "."
      fe     == IF hasDot THEN runEnd(s, ie + 2) ELSE ie
      intDs  == SubSeq(s, a, ie)
      fracDs == IF hasDot THEN SubSeq(s, ie + 2, fe) ELSE <<>>
      f1     == IF Len(fracDs) >= 1 THEN digitValue(fracDs[1]) ELSE 0
      f2     == IF Len(fracDs) >= 2 THEN digitValue(fracDs[2]) ELSE 0
      mag    == natOf(intDs) * 100 + 10 * f1 + f2
  IN  IF intDs = <<>> /\ fracDs = <<>> THEN NaN
      ELSE Num(IF signed /\ s[1] = "-" THEN 0 - mag ELSE mag)

\* Lines 276, 324-325: replace(/[^0-9.\-]/g, '').
keepNumeric(s) == SelectSeq(s, LAMBDA c : IsDigit(c) \/ c \in {".", "-"})

\* The em dash the page shows for a missing value, as one character.
EM_DASH == "[em dash]"
DashText == <<EM_DASH>>

Sides == {"A", "B"}

\* Line 319: the ten compared fields, and the table each is read from.
CompareKeys ==
  <<"avgCtc", "medCtc", "highCtc", "instRank", "sentiment", "mess", "prof",
    "campus", "infra", "overall">>
KeySet == {CompareKeys[k] : k \in 1..Len(CompareKeys)}
PlacementKeys == {"avgCtc", "medCtc", "highCtc", "instRank"}

\* Lines 258, 264: the candidate names of the institute column.
PlacementNameCandidates ==
  << <<"I","n","s","t","i","t","u","t","e">>,
     <<"i","n","s","t","i","t","u","t","e">>,
     <<"c","o","l","l","e","g","e">>,
     <<"C","o","l","l","e","g","e">>,
     <<"N","A","M","E">> >>
ReviewsNameCandidates ==
  << <<"c","o","l","l","e","g","e","_","n","a","m","e">>,
     <<"C","o","l","l","e","g","e","_","n","a","m","e">>,
     <<"c","o","l","l","e","g","e">>,
     <<"I","n","s","t","i","t","u","t","e">>,
     <<"i","n","s","t","i","t","u","t","e">>,
     <<"C","o","l","l","e","g","e">>,
     <<"N","A","M","E">> >>

\* Lines 269-272, 280-285: the candidate names of each field.
FieldCandidates ==
  [avgCtc |-> << <<"a","v","e","r","a","g","e","_","c","t","c">>,
                 <<"a","v","g","_","c","t","c">>,
                 <<"A","v","e","r","a","g","e","_","C","T","C">>,
                 <<"a","v","g","c","t","c">> >>,
   medCtc |-> << <<"m","e","d","i","a","n","_","c","t","c">>,
                 <<"m","e","d","i","a","n">>,
                 <<"M","e","d","i","a","n","_","C","T","C">> >>,
   highCtc |-> << <<"h","i","g","h","e","s","t","_","c","t","c">>,
                  <<"h","i","g","h","e","s","t">>,
                  <<"h","i","g","h","e","s","t","_","c","t","c">> >>,
   instRank |-> << <<"i","n","s","t","_","r","a","n","k">>,
                   <<"i","n","s","t","i","t","u","t","i","o","n","_","r","a","n","k">>,
                   <<"r","a","n","k">> >>,
   sentiment |-> << <<"s","e","n","t","i","m","e","n","t","_","s","c","o","r","e">>,
                    <<"s","e","n","t","i","m","e","n","t">>,
                    <<"s","e","n","t","i","m","e","n","t","_","s","c","o","r","e","_","p","e","r","c","e","n","t">> >>,
   mess |-> << <<"m","e","s","s","_","s","c","o","r","e">>,
               <<"m","e","s","s">>,
               <<"m","e","s","s","_","s","c","o","r","e","_","p","e","r","c","e","n","t">> >>,
   prof |-> << <<"p","r","o","f","e","s","s","o","r","_","s","c","o","r","e">>,
               <<"p","r","o","f","e","s","s","o","r">>,
               <<"p","r","o","f","e","s","s","o","r","_","s","c","o","r","e">> >>,
   campus |-> << <<"c","a","m","p","u","s","_","s","c","o","r","e">>,
                 <<"c","a","m","p","u","s">>,
                 <<"c","a","m","p","u","s","_","s","c","o","r","e">> >>,
   infra |-> << <<"i","n","f","r","a","s","t","r","u","c","t","u","r","e","_","s","c","o","r","e">>,
                <<"i","n","f","r","a","s","t","r","u","c","t","u","r","e">>,
                <<"i","n","f","r","a","s","t","r","u","c","t","u","r","e","_","s","c","o","r","e">> >>,
   overall |-> << <<"o","v","e","r","a","l","l","_","a","s","p","e","c","t","_","s","c","o","r","e">>,
                  <<"o","v","e","r","a","l","l">>,
                  <<"o","v","e","r","a","l","l","_","s","c","o","r","e">> >>]

\* Line 275: the candidate names of the placement rating.
RatingCandidates ==
  << <<"p","l","a","c","e","m","e","n","t","_","r","a","t","i","n","g">>,
     <<"p","l","a","c","e","m","e","n","t","_","r","a","t","i","n","g","_","s","c","o","r","e">>,
     <<"r","a","t","i","n","g">>,
     <<"p","l","a","c","e","m","e","n","t","_","r","a","t","i","n","g","_","p","e","r","c","e","n","t">> >>

\* Lines 257-260, 263-266: data.find(...) || {}, the first row whose
\* institute column is the institute.
findRow(data, names, institute) ==
  LET hits == {k \in 1..Len(data) : getVal(data[k], names) = institute}
  IN  IF hits = {} THEN EmptyObj
      ELSE data[CHOOSE k \in hits : \A m \in hits : k <= m]

\* textOr as it would be if an empty value were shown as it is.
textOrEmpty(v) == v

\* Lines 269-285, 290: the text setText leaves in a field.
textOr(v) == IF v = <<>> THEN DashText ELSE v

\* Lines 293-315: what renderStars shows: the em dash for a value that is
\* not a number, else the rating on the scale of five, in parts of 1/2000
\* (a value over 5 is taken as a percentage).
renderStars(raw) ==
  IF raw.nan THEN DashText
  ELSE LET h == raw.hundredths
           clamp(x, hi) == IF x < 0 THEN 0 ELSE IF x > hi THEN hi ELSE x
       IN  [stars |-> IF h > 500 THEN clamp(h, 10000) ELSE 20 * clamp(h, 500)]

\* compareClasses as it would be if the larger value were marked higher in
\* every field, instRank included.
compareClassesNoInverse(k, aText, bText) ==
  LET aVal == parseFloat(keepNumeric(aText))
      bVal == parseFloat(keepNumeric(bText))
  IN  IF ~aVal.nan /\ ~bVal.nan /\ aVal.hundredths # bVal.hundredths
        THEN IF aVal.hundredths > bVal.hundredths
               THEN [A |-> "num higher", B |-> "num lower"]
               ELSE [A |-> "num lower", B |-> "num higher"]
        ELSE [A |-> "num", B |-> "num"]

\* Lines 324-334: the class names compareNumericPairs gives the two
\* elements of field k.
compareClasses(k, aText, bText) ==
  LET aVal == parseFloat(keepNumeric(aText))
      bVal == parseFloat(keepNumeric(bText))
      inverse == (k = "instRank")
  IN  IF ~aVal.nan /\ ~bVal.nan
        THEN IF aVal.hundredths = bVal.hundredths
               THEN [A |-> "num", B |-> "num"]
             ELSE IF (aVal.hundredths > bVal.hundredths) # inverse
               THEN [A |-> "num higher", B |-> "num lower"]
             ELSE [A |-> "num lower", B |-> "num higher"]
        ELSE [A |-> "num", B |-> "num"]

\* Lines 317-336.
compareNumericPairs(f) ==
  [f EXCEPT !.class =
     [k \in KeySet |-> compareClasses(k, f.text[k]["A"], f.text[k]["B"])]]

\* Lines 255-288: renderPlacementAndReview(side, institute) on the fields f.
renderPlacementAndReview(f, pData, rData, side, institute) ==
  LET p == findRow(pData, PlacementNameCandidates, institute)
      r == findRow(rData, ReviewsNameCandidates, institute)
      shown(k) ==
        textOr(getVal(IF k \in PlacementKeys THEN p ELSE r, FieldCandidates[k]))
      numericRating == parseFloat(keepNumeric(getVal(p, RatingCandidates)))
  IN  compareNumericPairs(
        [text  |-> [k \in KeySet |->
                      [s \in Sides |-> IF s = side THEN shown(k) ELSE f.text[k][s]]],
         class |-> f.class,
         stars |-> [s \in Sides |->
                      IF s = side THEN renderStars(numericRating) ELSE f.stars[s]]])

\* Lines 185-186: the two calls of doCompare.
doCompareFields(f, pData, rData, instA, instB) ==
  renderPlacementAndReview(
    renderPlacementAndReview(f, pData, rData, "A", instA),
    pData, rData, "B", instB)

\* doCompareCalls as it would be if the button had the listener of the
\* startup handler only.
doCompareCallsGuardedOnly(dis, added) == IF dis THEN 0 ELSE 1

\* Lines 156, 442: the calls of doCompare one click makes: the listener of
\* the startup handler calls it unless the button is disabled, and each
\* listener added by populateInstituteProgramLists calls it.
doCompareCalls(dis, added) == (IF dis THEN 0 ELSE 1) + added

\* The fields after n calls of doCompare in a row.
RECURSIVE runDoCompare(_, _, _, _, _, _)
runDoCompare(n, f, pData, rData, instA, instB) ==
  IF n = 0 THEN f
  ELSE runDoCompare(n - 1, doCompareFields(f, pData, rData, instA, instB),
                    pData, rData, instA, instB)

\* classEnabled as it would be if one chosen select were enough.
classEnabledAny(sel) == \E id \in SelectIds : sel[id] # <<>>

\* Lines 166-172: whether checkEnableCompare leaves the class 'enabled' on
\* compareBtn.
classEnabled(sel) == \A id \in SelectIds : sel[id] # <<>>

\* The text, class and stars of the fields as the markup of the page has
\* them, before any doCompare.
MarkupText == <<"[markup]">>
MarkupFields ==
  [text  |-> [k \in KeySet |-> [s \in Sides |-> MarkupText]],
   class |-> [k \in KeySet |-> [s \in Sides |-> "[markup]"]],
   stars |-> [s \in Sides |-> MarkupText]]

\* Lines 79-82, 159-173: the comparison page before its startup handler
\* runs.  No select has an option chosen before populateInstituteProgramLists
\* fills them, and compareBtn is disabled, as checkEnableCompare leaves it
\* whenever a select is empty.
ComparisonPageParsed ==
  /\ loadPc = "idle"
  /\ net = [f \in Files |-> NotRequested]
  /\ rankData = <<>>
  /\ collegeData = <<>>
  /\ placementData = <<>>
  /\ reviewsData = <<>>
  /\ populated = 0
  /\ options = [institute |-> {}, program |-> {}]
  /\ selected = [id \in SelectIds |-> <<>>]
  /\ disabled = checkEnableCompare([id \in SelectIds |-> <<>>])
  /\ timerPending = FALSE
  /\ compareListeners = 0
  /\ panels = NoPanels
  /\ earlyReads = {}
  /\ compared = MarkupFields
  /\ enabledClass = FALSE
  /\ clickRuns = 0

---------------------------------------------------------------------------
(* renderBasicInfo: the college row of an institute *)

\* String.prototype.indexOf: the first index (from 0) at which sub occurs
\* in s, or -1.
indexOf(s, sub) ==
  LET hits == {k \in 0..(Len(s) - Len(sub)) :
                 SubSeq(s, k + 1, k + Len(sub)) = sub}
  IN  IF hits = {} THEN -1
      ELSE CHOOSE k \in hits : \A m \in hits : k <= m

\* Lines 200, 206-207: the normalized candidate name of a row.
normCandOf(r) == normalizeName(Str(getVal(r, CollegeNameCandidates)))

\* Lines 198-202: the index (from 1) of the first row from k on whose
\* normalized name is the target, or 0.
RECURSIVE firstExactFrom(_, _, _)
firstExactFrom(data, target, k) ==
  IF k > Len(data) THEN 0
  ELSE IF normCandOf(data[k]) = target THEN k
  ELSE firstExactFrom(data, target, k + 1)

\* Lines 205-212: the index of the first row from k on whose normalized
\* name is not empty and equals, contains or is contained in the target.
RECURSIVE firstFuzzyFrom(_, _, _)
firstFuzzyFrom(data, target, k) ==
  IF k > Len(data) THEN 0
  ELSE IF /\ normCandOf(data[k]) # <<>>
          /\ \/ normCandOf(data[k]) = target
             \/ indexOf(normCandOf(data[k]), target) # -1
             \/ indexOf(target, normCandOf(data[k])) # -1
    THEN k
  ELSE firstFuzzyFrom(data, target, k + 1)

\* findCollegeRow as it would be with the tolerant comparison alone, in one
\* pass over the table.
findCollegeRowOnePass(data, institute) ==
  LET target == normalizeName(institute)
      f == IF target = <<>> THEN firstExactFrom(data, target, 1)
           ELSE firstFuzzyFrom(data, target, 1)
  IN  IF f # 0
        THEN [by |-> IF normCandOf(data[f]) = target THEN "exact"
                     ELSE "containment",
              index |-> f, row |-> data[f]]
        ELSE [by |-> "none", index |-> 0, row |-> EmptyObj]

\* Lines 196-214: the row renderBasicInfo renders for an institute, with
\* its index in collegeData and the loop that found it; the empty object
\* when no row is found.
findCollegeRow(data, institute) ==
  LET target == normalizeName(institute)
      e == firstExactFrom(data, target, 1)
      f == IF e = 0 /\ target # <<>> THEN firstFuzzyFrom(data, target, 1) ELSE 0
  IN  IF e # 0 THEN [by |-> "exact", index |-> e, row |-> data[e]]
      ELSE IF f # 0 THEN [by |-> "containment", index |-> f, row |-> data[f]]
      ELSE [by |-> "none", index |-> 0, row |-> EmptyObj]

\* The most rows of a college table.
MaxCollegeRows == 3

\* Records of a college table: the name as written, and the name it is
\* written to stand for (trimmed, single-spaced, lower case).
CollegeRecords ==
  { [lines |-> << <<"a","b",COMMA,"X">> >>,
     fields |-> << <<"a","b">>, <<"X">> >>, norm |-> <<"a","b">>],
    [lines |-> << <<"a",COMMA,"X">> >>,
     fields |-> << <<"a">>, <<"X">> >>, norm |-> <<"a">>],
    [lines |-> << <<SP,"A",SP,SP,"b",COMMA,"X">> >>,
     fields |-> << <<"A",SP,SP,"b">>, <<"X">> >>, norm |-> <<"a",SP,"b">>],
    [lines |-> << <<COMMA,"X">> >>,
     fields |-> << <<>>, <<"X">> >>, norm |-> <<>>],
    [lines |-> << <<"b",COMMA,"X">> >>,
     fields |-> << <<"b">>, <<"X">> >>, norm |-> <<"b">>] }

CollegeInputs ==
  [header : {LowerCollegeNameHeader},
   recs : SeqsUpTo(CollegeRecords, MaxCollegeRows),
   tail : { <<>> }, eol : { <<LF>> }, trail : {FALSE}]

\* The institutes renderBasicInfo is called with: the value of a select as
\* written, and the name it is written to stand for.
InstituteArgs ==
  { [value |-> <<>>, norm |-> <<>>],
    [value |-> <<SP>>, norm |-> <<>>],
    [value |-> <<"a">>, norm |-> <<"a">>],
    [value |-> <<"A",TAB>>, norm |-> <<"a">>],
    [value |-> <<"a","b">>, norm |-> <<"a","b">>],
    [value |-> <<"a",SP,"B">>, norm |-> <<"a",SP,"b">>],
    [value |-> <<"b">>, norm |-> <<"b">>],
    [value |-> <<"c">>, norm |-> <<"c">>] }

---------------------------------------------------------------------------
(* loadDetails of the explore page *)

\* Lines 127-129: the three requests of loadDetails.
DetailRequests == {"college", "reviews", "placement"}

\* The placeholder text (an em dash in the source).
Placeholder == "-"

\* Bodies: JSON payloads with the fields the model renders (an absent or
\* empty field is ""), and a body that is not JSON.
Unparseable == [json |-> FALSE]
CollegePayloads ==
  { [json |-> TRUE, institute_name |-> "Alpha", avg_ctc |-> ""],
    [json |-> TRUE, institute_name |-> "", avg_ctc |-> "7"] }
ReviewsPayloads ==
  { [json |-> TRUE, reviews |-> <<"r1">>], [json |-> TRUE, reviews |-> <<>>] }
PlacementPayloads ==
  { [json |-> TRUE, avg_ctc |-> "9"], [json |-> TRUE, avg_ctc |-> ""] }

Payloads(r) ==
  IF r = "college" THEN CollegePayloads
  ELSE IF r = "reviews" THEN ReviewsPayloads ELSE PlacementPayloads

\* The responses a request of loadDetails may resolve with.
DetailResponses(r) ==
  { [st |-> "response", ok |-> TRUE, body |-> b] :
      b \in Payloads(r) \cup {Unparseable} }
  \cup { [st |-> "response", ok |-> FALSE, body |-> Unparseable] }

\* The names loadDetails is called with.
DetailNames == {"Alpha", "Beta"}

\* Lines 81-104: the elements clearDetails resets, of which the model keeps
\* the title, the average CTC and the review list.
ClearedView ==
  [title |-> Placeholder, placementAvg |-> Placeholder,
   reviewsList |-> [msg |-> "No reviews loaded.", items |-> <<>>]]

\* Lines 133-134: the datasets used for a response that is not OK.
NoReviews == [json |-> TRUE, reviews |-> <<>>]
NoPlacement == [json |-> TRUE, avg_ctc |-> ""]

\* Lines 137, 207-208, 219-241: what loadDetails renders.
renderDetails(name, d, reviews, placement) ==
  [title |-> IF d.institute_name # "" THEN d.institute_name ELSE name,
   placementAvg |->
     IF placement.avg_ctc # "" THEN placement.avg_ctc
     ELSE IF d.avg_ctc # "" THEN d.avg_ctc ELSE Placeholder,
   reviewsList |->
     IF reviews.reviews = <<>>
       THEN [msg |-> "No reviews in reviews.csv for this institute.",
             items |-> <<>>]
       ELSE [msg |-> "", items |-> reviews.reviews]]

\* Lines 242-246: the catch branch.
renderFailure(v) ==
  [v EXCEPT !.reviewsList =
     [msg |-> "Could not load data for this institute.", items |-> <<>>]]

\* The newest call of loadDetails: where it stands ("idle" before the
\* first call), its argument and its requests.
detailPc ==
  IF detailCalls = <<>> THEN "idle" ELSE detailCalls[Len(detailCalls)].pc
detailName ==
  IF detailCalls = <<>> THEN "" ELSE detailCalls[Len(detailCalls)].name
detailNet ==
  IF detailCalls = <<>> THEN [r \in DetailRequests |-> NotRequested]
  ELSE detailCalls[Len(detailCalls)].net

\* The most calls of loadDetails still running when it is called again.
MaxOverlap == 1

\* A call of loadDetails has run to its end.
CallOver(c) == c.pc \in {"rendered", "failed"}

\* writesPage as it would be if a call that is no longer the newest left
\* the page alone.
writesPageNewestOnly(k, count) == k = count

\* Lines 136-246: whether the k-th of count calls writes the page when its
\* responses have been processed: every call does, loadDetails does not
\* look whether a newer call was made.
writesPage(k, count) == TRUE

\* The label as the markup of the page has it.
MarkupName == "[markup]"

\* The explore page with no details loaded.
DetailsIdle ==
  /\ detailCalls = <<>>
  /\ selName = MarkupName
  /\ view = ClearedView

---------------------------------------------------------------------------
(* The authentication modal *)

\* The most submissions and Google sign-in clicks of one page load.
MaxAuthEvents == 2

Usernames == {"u"}
Passwords == {"p", ""}

\* What prompt() returns: null when cancelled, else the text entered.
PromptResults ==
  { [cancelled |-> TRUE, value |-> ""], [cancelled |-> FALSE, value |-> ""],
    [cancelled |-> FALSE, value |-> "g@x"] }

\* What becomes of a request: fetch rejects, the body is not JSON, or the
\* body is {success, message}.
AuthOutcomes ==
  { [kind |-> "rejected", success |-> FALSE, message |-> ""],
    [kind |-> "unparseable", success |-> FALSE, message |-> ""] }
  \cup [kind : {"json"}, success : BOOLEAN, message : {"m"}]

\* endpoint as it would be if the form always posted to /login.
endpointAlwaysLogin(mode) == "/login"

\* Line 357.
endpoint(mode) == IF mode THEN "/login" ELSE "/signup"

\* Lines 359-365, 400-406: the request sent.
Post(url, username, password) ==
  [method |-> "POST", url |-> url,
   body |-> [username |-> username, password |-> password]]

\* formReaction as it would be if every parsed response were handed to
\* handleSuccess.
formReactionAlwaysSuccess(out, mode) ==
  IF out.kind # "json"
    THEN [alert |-> "An error occurred. Check the console for details.",
          reload |-> FALSE, openLogin |-> FALSE]
    ELSE [alert |-> out.message, reload |-> TRUE, openLogin |-> FALSE]

\* Lines 366-382, 282-285: what the form's handlers do with an outcome, in
\* the mode read when the response is handled: the alert shown, whether
\* the page is reloaded (handleSuccess) and whether openModal('login') runs.
formReaction(out, mode) ==
  IF out.kind # "json"
    THEN [alert |-> "An error occurred. Check the console for details.",
          reload |-> FALSE, openLogin |-> FALSE]
  ELSE IF out.success /\ mode
    THEN [alert |-> out.message, reload |-> TRUE, openLogin |-> FALSE]
  ELSE IF out.success
    THEN [alert |-> out.message, reload |-> FALSE, openLogin |-> TRUE]
  ELSE [alert |-> out.message, reload |-> FALSE, openLogin |-> FALSE]

\* Lines 407-419, 282-285: the same for the Google sign-in.
googleReaction(out) ==
  IF out.kind # "json"
    THEN [alert |-> "An error occurred during authentication.",
          reload |-> FALSE, openLogin |-> FALSE]
  ELSE IF out.success
    THEN [alert |-> out.message, reload |-> TRUE, openLogin |-> FALSE]
  ELSE [alert |-> out.message, reload |-> FALSE, openLogin |-> FALSE]

\* handlerMode as it would be if the handler used the mode the request was
\* sent in.
handlerModeAtSubmit(now, atSubmit) == atSubmit

\* Lines 368, 371: the mode the response handler of the form branches on,
\* isLoginMode as it is when the handler runs.
handlerMode(now, atSubmit) == now

\* Lines 290-292, 301-303: the labels toggleAuthMode and openModal write.
modalLabels(login) ==
  [submit |-> IF login THEN "Login" ELSE "Sign Up",
   link   |-> IF login THEN "Sign Up" ELSE "Login"]

\* linkListenersAfter as it would be without lines 294 and 305.
linkListenersAfterNone(before) == 0

\* Lines 293-294, 304-305: the listeners of the toggle link once .toggle-auth
\* is rewritten: the link is a new element, to which one listener is added.
linkListenersAfter(before) == 1

\* Lines 288-295: the mode after a click on a toggle link with n listeners,
\* each of which calls toggleAuthMode.
toggled(mode, n) == IF n % 2 = 1 THEN ~mode ELSE mode

\* The labels as the markup of the page has them.
MarkupLabel == "[markup]"

\* Lines 279, 346-348: the page before any event of the modal; the toggle
\* link of the markup has the listener line 347 adds.
AuthIdle ==
  /\ isLoginMode = TRUE
  /\ submitLabel = MarkupLabel
  /\ toggleLinkText = MarkupLabel
  /\ toggleListeners = 1
  /\ sent = <<>>
  /\ inflight = {}
  /\ alerts = <<>>
  /\ reloaded = FALSE
  /\ lastEvent = [type |-> "load"]

----------------------------------------------------------------------------
(* The recommendations page (part_001): applyClientSort and the results *)

\* An array as a value.
Arr(items) == [type |-> "array", items |-> items]

\* The value of Infinity.
Infinity == [nan |-> FALSE, infinite |-> TRUE]

\* The metrics of the select client_sort_metric that the model offers.
PREDICTED_CLOSING_RANK == "Predicted Closing Rank"
CLOSING_RANK == "Closing Rank"
PLACEMENT_SCORE == "placement_score"
SortMetrics == {PREDICTED_CLOSING_RANK, CLOSING_RANK, PLACEMENT_SCORE}

\* Lines 324-326: the metric sorted by, the value of the select or the
\* default.
metricOf(selectValue) ==
  IF selectValue = "" THEN PREDICTED_CLOSING_RANK ELSE selectValue

\* Lines 330-334.
rankMetrics == {PREDICTED_CLOSING_RANK, CLOSING_RANK, "PredictedClosingRank"}

\* Lines 335-341.
descendingByDefault ==
  {"Max Average CTC", PLACEMENT_SCORE, "overall_aspect_score",
   "professor_score", "mess_score"}

\* Lines 342-344.
orderDesc(metric) ==
  IF metric \in descendingByDefault THEN TRUE ELSE metric \notin rankMetrics

\* An item of the results: its name and the values of the keys "Predicted
\* Closing Rank" (pcr), "Closing Rank" (cr) and "placement_score" (score),
\* each Undefined (the key is absent, or null: the operator ?? and the test
\* of line 366 treat the two alike) or a string (a JSON number is modelled
\* by its decimal text: parseFloat and "" + val convert it to that first).  The items of the
\* model have no key "PredictedClosingRank" and none of the other spellings
\* of a key that lines 361-365 try.
Item(nm, pcr, cr, score) == [name |-> nm, pcr |-> pcr, cr |-> cr, score |-> score]

\* a ?? b.
coalesce(first, second) == IF first # Undefined THEN first ELSE second

\* Lines 347-369: getVal(obj, key) of the comparator: for a closing-rank key
\* the number parsed from the first of the closing-rank keys the item has,
\* and Infinity for an item with none; for another key null for a missing
\* or empty value, else the number the value parses to, or the lower-cased
\* string when it parses to none.
sortGetVal(obj, key) ==
  IF key \in {PREDICTED_CLOSING_RANK, "PredictedClosingRank", CLOSING_RANK}
    THEN LET raw == coalesce(obj.pcr, obj.cr)
         IN  IF raw = Undefined THEN Infinity ELSE parseFloat(raw.chars)
    ELSE LET val == obj.score
         IN  IF val = Undefined \/ val = Str(<<>>) THEN Null
             ELSE IF parseFloat(val.chars) = NaN THEN Str(toLowerCase(val.chars))
             ELSE parseFloat(val.chars)

\* typeof v === "number", and a string.
IsNumber(v) == "nan" \in DOMAIN v
IsText(v) == "chars" \in DOMAIN v

\* The sign of first - second for numbers, 0 standing for +0, -0 and NaN
\* alike (sort treats a comparator result of NaN as +0): NaN when either
\* is NaN or both are Infinity.
signOfDifference(first, second) ==
  IF first = NaN \/ second = NaN THEN 0
  ELSE IF first = Infinity /\ second = Infinity THEN 0
  ELSE IF first = Infinity THEN 1
  ELSE IF second = Infinity THEN 0 - 1
  ELSE IF first.hundredths < second.hundredths THEN 0 - 1
  ELSE IF first.hundredths > second.hundredths THEN 1
  ELSE 0

\* The code unit of a character of the texts of the model.
codeUnit(c) ==
  IF IsDigit(c) THEN 48 + digitValue(c)
  ELSE IF \E k \in 1..26 : UpperLetters[k] = c
    THEN 64 + (CHOOSE k \in 1..26 : UpperLetters[k] = c)
  ELSE IF \E k \in 1..26 : LowerLetters[k] = c
    THEN 96 + (CHOOSE k \in 1..26 : LowerLetters[k] = c)
  ELSE 32

\* s < t for strings: by the code units of the first position where they
\* differ, a proper prefix being the smaller.
stringLess(s, t) ==
  \E k \in 1..(Len(t)) :
    /\ k <= Len(s) + 1
    /\ \A j \in 1..(k - 1) : s[j] = t[j]
    /\ k = Len(s) + 1 \/ codeUnit(s[k]) < codeUnit(t[k])

\* Lines 378-379: va < vb when at least one of them is a string: two strings
\* are compared as strings; a string and a number are compared as numbers,
\* and the strings that reach this line in the model (no parseFloat value,
\* not blank) convert to NaN, which is less than nothing.
lessThan(va, vb) ==
  IF IsText(va) /\ IsText(vb) THEN stringLess(va.chars, vb.chars) ELSE FALSE

\* Lines 372-381: the sign of what the comparator returns for two items
\* whose values under the metric are va and vb.
compareValues(va, vb, desc) ==
  IF va = Null /\ vb = Null THEN 0
  ELSE IF va = Null THEN 1
  ELSE IF vb = Null THEN 0 - 1
  ELSE IF IsNumber(va) /\ IsNumber(vb)
    THEN IF desc THEN signOfDifference(vb, va) ELSE signOfDifference(va, vb)
  ELSE IF lessThan(va, vb) THEN (IF desc THEN 1 ELSE 0 - 1)
  ELSE IF lessThan(vb, va) THEN (IF desc THEN 0 - 1 ELSE 1)
  ELSE 0

\* The values getVal gives the items of arr under the metric, in order.
RECURSIVE sortValues(_, _)
sortValues(arr, metric) ==
  IF arr = <<>> THEN <<>>
  ELSE <<sortGetVal(Head(arr), metric)>> \o sortValues(Tail(arr), metric)

\* Lines 346-381: the comparator on every pair of items of arr: the sign
\* of what it returns for (arr[m], arr[n]).
comparator(arr, metric) ==
  LET vals == sortValues(arr, metric)
  IN  [pr \in (1..Len(arr)) \X (1..Len(arr)) |->
         compareValues(vals[pr[1]], vals[pr[2]], orderDesc(metric))]

\* Whether a comparator, given by its signs c, is a consistent comparator
\* for n items (ECMAScript, Array.prototype.sort): only then is the sort
\* order defined.
ConsistentComparator(c, n) ==
  /\ \A m \in 1..n : c[<<m, m>>] = 0
  /\ \A m, o \in 1..n : c[<<m, o>>] = 0 - c[<<o, m>>]
  /\ \A m, o, q \in 1..n :
       /\ (c[<<m, o>>] = 0 /\ c[<<o, q>>] = 0) => c[<<m, q>>] = 0
       /\ (c[<<m, o>>] < 0 /\ c[<<o, q>>] < 0) => c[<<m, q>>] < 0
       /\ (c[<<m, o>>] > 0 /\ c[<<o, q>>] > 0) => c[<<m, q>>] > 0

\* arr with its items in the order ord.
Reordered(arr, ord) == [k \in 1..Len(arr) |-> arr[ord[k]]]

\* The place a stable sort gives item k of n: after the items the
\* comparator puts before it and the earlier items it returns 0 for.
stablePlace(c, n, k) ==
  1 + Cardinality({j \in 1..n : \/ c[<<j, k>>] < 0
                                \/ c[<<j, k>>] = 0 /\ j < k})

\* applyClientSort as it would be if it sorted results itself.
applyClientSortInPlace(results, sorted) == sorted

\* Line 323: results after the call: applyClientSort sorts a copy
\* (slice()), results is left as it was.
argumentAfterSort(results, sorted) == results

\* Array.prototype.sort on a copy of arr with a comparator of signs c: the
\* stable sort when the comparator is consistent for the items, and an
\* order that the implementation defines (any order here) when it is not.
sortedCopies(arr, c) ==
  IF ConsistentComparator(c, Len(arr))
    THEN { [q \in 1..Len(arr) |->
              arr[CHOOSE k \in 1..Len(arr) : stablePlace(c, Len(arr), k) = q]] }
    ELSE { Reordered(arr, ord) : ord \in Permutations(1..Len(arr)) }

\* Lines 322-385: the arrays applyClientSort(results) may return under the
\* metric.
applyClientSort(results, metric) ==
  UNION { sortedCopies(results, c) : c \in {comparator(results, metric)} }

\* The results list as the markup of the page has it.
MarkupList == [note |-> "[markup]", cards |-> <<>>]

\* Lines 306-319: renderResultsList(data): a note for no data, else one card
\* per item, in the order of data (a card is modelled by its item).
renderResultsList(data) ==
  IF data = <<>> THEN [note |-> "No recommendations to show.", cards |-> <<>>]
  ELSE [note |-> "", cards |-> data]

\* Lines 31-36: the message area after clearMessage(), and lines 24-30:
\* after showMessage(type, text), which also empties the results list.
NoMessage == [cls |-> "", text |-> ""]
showMessage(cls, txt) == [cls |-> cls, text |-> txt]
EmptiedList == [note |-> "", cards |-> <<>>]

\* The programs of the form and what the server recommends for each, in the
\* order the server returns it.
Programs == {"CSE", "ECE"}
DataFor(program) ==
  IF program = "CSE"
    THEN << Item("K", Str(<<"1","0">>), Undefined, Str(<<"3">>)),
            Item("L", Str(<<"5">>), Undefined, Str(<<"8">>)) >>
    ELSE << Item("M", Undefined, Str(<<"7">>), Str(<<"8">>)),
            Item("N", Str(<<"2">>), Undefined, Undefined) >>

\* The bodies the server may answer a request for a program with: results
\* with status, message and data (Undefined or an array); a body that is
\* not JSON makes res.json() reject.
ResultBodies(program) ==
  { [json |-> TRUE, status |-> "success", message |-> "",
     data |-> Arr(DataFor(program))],
    [json |-> TRUE, status |-> "success", message |-> "", data |-> Undefined],
    [json |-> TRUE, status |-> "warning", message |-> "few",
     data |-> Arr(DataFor(program))],
    [json |-> TRUE, status |-> "error", message |-> "", data |-> Undefined] }

\* Lines 416, 419, 427: whether the handler stores and renders the data of
\* a parsed result: on success always (no data is the empty array),
\* otherwise when data is a non-empty array.
storesData(ok, result) ==
  IF ok /\ result.status = "success" THEN TRUE
  ELSE result.data # Undefined /\ result.data.items # <<>>

\* handlesResponse as it would be if only the newest request were handled.
handlesResponseNewestOnly(k, count) == k = count

\* Lines 410-433: whether the response to the k-th of count requests is
\* handled: each is, by its own listener call, whatever was submitted since.
handlesResponse(k, count) == TRUE

\* The most requests still awaited when the form is submitted again.
MaxPending == 1

\* The most items of an array applyClientSort is called on.
MaxItems == 3

\* The recommendations page as loaded.
RecommendIdle ==
  /\ LAST_RESULTS = <<>>
  /\ resultsList = MarkupList
  /\ sortMetric = PREDICTED_CLOSING_RANK
  /\ recRequests = <<>>
  /\ recMessage = NoMessage

\* The parser at rest, for the specifications that do not run it.
ParserIdle ==
  /\ input = EndToEndInput
  /\ text = Render(input)
  /\ pc = "start"
  /\ headers = <<>>
  /\ lines = <<>>
  /\ i = 0
  /\ line = <<>>
  /\ outRows = <<>>

\* parseCSV is entered with a text.
Init ==
  /\ input \in Inputs
  /\ text = Render(input)
  /\ pc = "start"
  /\ headers = <<>>
  /\ lines = <<>>
  /\ i = 0
  /\ line = <<>>
  /\ outRows = <<>>
  /\ call = NoCall
  /\ ComparisonPageParsed
  /\ DetailsIdle
  /\ AuthIdle
  /\ RecommendIdle

\* Lines 14-19: the header is split off and the loop starts at index 1.
ParseBegin ==
  /\ pc = "start"
  /\ headers' = splitCSVLine(splitLines(text)[1])
  /\ outRows' = <<>>
  /\ line' = <<>>
  /\ lines' = splitLines(text)
  /\ i' = firstIndex
  /\ pc' = "loop"
  /\ UNCHANGED <<input, text, call, loadVars, detailVars, authVars, recVars>>

\* Lines 23-30: the next physical line joins the buffer, whose quote count is
\* odd: the buffer is kept, with a newline, for the next iteration.
ParseContinue ==
  /\ pc = "loop"
  /\ i < Len(lines)
  /\ quoteCount(line \o lines[i + 1]) % 2 # 0
  /\ line' = loopBody(headers, lines, i, line, outRows).line
  /\ outRows' = loopBody(headers, lines, i, line, outRows).outRows
  /\ i' = i + 1
  /\ UNCHANGED <<input, text, pc, headers, lines, call, loadVars, detailVars, authVars, recVars>>

\* Lines 23-39: the buffer is a complete record; it is pushed as a row or
\* discarded, and the buffer is reset.
ParseRecord ==
  /\ pc = "loop"
  /\ i < Len(lines)
  /\ quoteCount(line \o lines[i + 1]) % 2 = 0
  /\ line' = loopBody(headers, lines, i, line, outRows).line
  /\ outRows' = loopBody(headers, lines, i, line, outRows).outRows
  /\ i' = i + 1
  /\ UNCHANGED <<input, text, pc, headers, lines, call, loadVars, detailVars, authVars, recVars>>

\* Line 42: the loop is over and outRows is returned.
ParseReturn ==
  /\ pc = "loop"
  /\ i >= Len(lines)
  /\ pc' = "done"
  /\ UNCHANGED <<input, text, headers, lines, i, line, outRows, call, loadVars, detailVars, authVars, recVars>>

Next == ParseBegin \/ ParseContinue \/ ParseRecord \/ ParseReturn

Spec == Init /\ [][Next]_vars

---------------------------------------------------------------------------
(* The accessors, called on the rows of a parsed table *)

\* parseCSV has returned the rows of a table.
InitAccess ==
  /\ input \in AccessorInputs
  /\ text = Render(input)
  /\ pc = "done"
  /\ lines = splitLines(text)
  /\ headers = splitCSVLine(splitLines(text)[1])
  /\ i = Len(splitLines(text))
  /\ line = <<>>
  /\ outRows = parseCSV(text)
  /\ call = NoCall
  /\ ComparisonPageParsed
  /\ DetailsIdle
  /\ AuthIdle
  /\ RecommendIdle

\* getVal(row, names) is called once on a row of the table (or on the empty
\* object the callers fall back to) and returns.
GetValCall ==
  /\ pc = "done"
  /\ call = NoCall
  /\ \E row \in {outRows[r] : r \in 1..Len(outRows)} \cup {EmptyObj} :
     \E names \in CandidateLists :
       call' = [fn |-> "getVal", row |-> row, names |-> names,
                ret |-> getVal(row, names)]
  /\ UNCHANGED <<parserVars, loadVars, detailVars, authVars, recVars>>

\* normalizeName(s) is called once and returns.
NormalizeNameCall ==
  /\ pc = "done"
  /\ call = NoCall
  /\ \E v \in NormalizeArgs :
       call' = [fn |-> "normalizeName", arg |-> v, ret |-> normalizeName(v)]
  /\ UNCHANGED <<parserVars, loadVars, detailVars, authVars, recVars>>

NextAccess == GetValCall \/ NormalizeNameCall

SpecAccess == InitAccess /\ [][NextAccess]_vars

---------------------------------------------------------------------------
(* The comparison page: loadAll, the network and the user *)

InitLoad ==
  /\ ParserIdle
  /\ call = NoCall
  /\ ComparisonPageParsed
  /\ DetailsIdle
  /\ AuthIdle
  /\ RecommendIdle

\* Whether the request of f may still end otherwise than in a successful
\* response read to its end.
MayFail(f) ==
  Cardinality({g \in Files \ {f} : Abnormal(net[g])}) < MaxFailures

\* Lines 91, 94, 99-101: the assignment to the slot of file f.
Store(f, rows) ==
  /\ rankData' = IF f \in RankFiles
                   THEN setYear(rankData, yearOf(f), rows) ELSE rankData
  /\ collegeData' = IF f = COLLEGE_FILE THEN rows ELSE collegeData
  /\ placementData' = IF f = PLACEMENT_FILE THEN rows ELSE placementData
  /\ reviewsData' = IF f = REVIEWS_FILE THEN rows ELSE reviewsData

\* Lines 107-157: populateInstituteProgramLists.  Reading rankData[y] of a
\* year not written throws and leaves the selects as they were.
Populate ==
  /\ populated' = populated + 1
  /\ earlyReads' = earlyReads \cup
       { [by |-> "populateInstituteProgramLists", slot |-> g] :
           g \in {h \in RankFiles : ~Settled(net[h])} }
  /\ IF \A k \in 1..Len(YEARS) : YEARS[k] \in DOMAIN rankData
       THEN /\ options' = [institute |-> columnValues(rankData, InstituteCandidates),
                           program |-> columnValues(rankData, ProgramCandidates)]
            /\ selected' = [id \in SelectIds |-> <<>>]
            /\ compareListeners' = compareListeners + 1
       ELSE UNCHANGED <<options, selected, compareListeners>>

\* The file loadAll requests once the load of f is over, if any: after the
\* rank files the college file (line 99), then the placement file (line
\* 100), then the reviews file (line 101).
nextFile(f, n, at) ==
  IF f \in RankFiles
    THEN IF at = "ranks" /\ ranksAwaited(n) THEN COLLEGE_FILE ELSE ""
  ELSE IF f = COLLEGE_FILE THEN PLACEMENT_FILE
  ELSE IF f = PLACEMENT_FILE THEN REVIEWS_FILE
  ELSE ""

\* The loader of f is resumed by the network, stores rows in its slot
\* (lines 91, 94, 99-101) and settles as state s; loadAll goes on to its
\* next await, or to populateInstituteProgramLists after the last (line 103).
Settle(f, s, rows) ==
  LET n1 == [net EXCEPT ![f] = s]
      g  == nextFile(f, n1, loadPc)
  IN  /\ Store(f, rows)
      /\ net' = IF g = "" THEN n1 ELSE [n1 EXCEPT ![g] = Requested]
      /\ loadPc' = IF f = REVIEWS_FILE THEN "done"
                   ELSE IF g = COLLEGE_FILE THEN "college"
                   ELSE IF g = PLACEMENT_FILE THEN "placement"
                   ELSE IF g = REVIEWS_FILE THEN "reviews"
                   ELSE loadPc
      /\ IF f = REVIEWS_FILE
           THEN Populate
           ELSE UNCHANGED <<populated, options, selected, compareListeners,
                            earlyReads>>
      /\ UNCHANGED <<disabled, timerPending, panels, compared, enabledClass,
                     clickRuns>>
      /\ UNCHANGED <<parserVars, call, detailVars, authVars, recVars>>

\* Lines 390-446: the startup handler calls loadAll, which requests the five
\* rank files (lines 87-89) and is suspended; the handler registers its
\* listeners and starts the 100 ms timer.
DOMContentLoaded ==
  /\ loadPc = "idle"
  /\ loadPc' = "ranks"
  /\ net' = [f \in Files |-> IF f \in RankFiles THEN Requested ELSE NotRequested]
  /\ timerPending' = TRUE
  /\ UNCHANGED <<rankData, collegeData, placementData, reviewsData, populated,
                 options, selected, disabled, compareListeners, panels,
                 earlyReads, compared, enabledClass, clickRuns>>
  /\ UNCHANGED <<parserVars, call, detailVars, authVars, recVars>>

\* Lines 89-90, 99-101: fetch resolves with a response of any status, and
\* the loader awaits the text of its body.
FetchResolves ==
  /\ \E f \in Files : \E r \in Responses(f) :
       /\ net[f] = Requested
       /\ r.ok \/ MayFail(f)
       /\ net' = [net EXCEPT ![f] = [st |-> "response", ok |-> r.ok, in |-> r.in]]
  /\ UNCHANGED <<loadPc, rankData, collegeData, placementData, reviewsData,
                 populated, options, selected, disabled, timerPending,
                 compareListeners, panels, earlyReads, compared, enabledClass,
                 clickRuns>>
  /\ UNCHANGED <<parserVars, call, detailVars, authVars, recVars>>

\* Lines 92-95, 99-101: fetch rejects; the catch branch stores the empty
\* table.
FetchRejects ==
  \E f \in Files :
    /\ net[f] = Requested
    /\ MayFail(f)
    /\ Settle(f, Rejected, <<>>)

\* Lines 90-91, 99-101: the text of the body arrives and is parsed.
BodyResolves ==
  \E f \in Files :
    /\ net[f].st = "response"
    /\ Settle(f, [net[f] EXCEPT !.st = "bodyRead"], parseCSV(Render(net[f].in)))

\* Lines 92-95, 99-101: reading the body fails; the catch branch stores the
\* empty table.
BodyRejects ==
  \E f \in Files :
    /\ net[f].st = "response"
    /\ MayFail(f)
    /\ Settle(f, [net[f] EXCEPT !.st = "bodyRejected"], <<>>)

\* Line 446: the timer of the startup handler runs checkEnableCompare.
EnableTimer ==
  /\ timerPending
  /\ timerPending' = FALSE
  /\ disabled' = checkEnableCompare(selected)
  /\ enabledClass' = classEnabled(selected)
  /\ UNCHANGED <<loadPc, net, rankData, collegeData, placementData,
                 reviewsData, populated, options, selected, compareListeners,
                 panels, earlyReads, compared, clickRuns>>
  /\ UNCHANGED <<parserVars, call, detailVars, authVars, recVars>>

\* Lines 153, 399-400: the user gives a select another of its option values
\* (or the placeholder); the listeners run checkEnableCompare.
SelectChange ==
  /\ loadPc # "idle"
  /\ \E id \in SelectIds : \E v \in OptionValues(options, id) \cup { <<>> } :
       /\ v # selected[id]
       /\ selected' = [selected EXCEPT ![id] = v]
       /\ disabled' = checkEnableCompare([selected EXCEPT ![id] = v])
       /\ enabledClass' = classEnabled([selected EXCEPT ![id] = v])
  /\ UNCHANGED <<loadPc, net, rankData, collegeData, placementData,
                 reviewsData, populated, options, timerPending,
                 compareListeners, panels, earlyReads, compared, clickRuns>>
  /\ UNCHANGED <<parserVars, call, detailVars, authVars, recVars>>

\* Lines 156, 442, 176-191: the user clicks compareBtn, which is not
\* disabled (a disabled button receives no click); every listener runs
\* doCompare, which renders the selected institutes and programs from the
\* slots.
CompareClick ==
  /\ loadPc # "idle"
  /\ ~disabled
  /\ clickRuns' = doCompareCalls(disabled, compareListeners)
  /\ panels' = selected
  /\ compared' = runDoCompare(doCompareCalls(disabled, compareListeners), compared,
                            placementData, reviewsData,
                            selected["instituteA"], selected["instituteB"])
  /\ earlyReads' = earlyReads \cup
       UNION { { [by |-> c, slot |-> g] :
                   g \in {h \in SlotsRead[c] : ~Settled(net[h])} } :
               c \in DOMAIN SlotsRead }
  /\ UNCHANGED <<loadPc, net, rankData, collegeData, placementData,
                 reviewsData, populated, options, selected, disabled,
                 timerPending, compareListeners, enabledClass>>
  /\ UNCHANGED <<parserVars, call, detailVars, authVars, recVars>>

NextLoad ==
  \/ DOMContentLoaded
  \/ FetchResolves
  \/ FetchRejects
  \/ BodyResolves
  \/ BodyRejects
  \/ EnableTimer
  \/ SelectChange
  \/ CompareClick

SpecLoad == InitLoad /\ [][NextLoad]_vars

---------------------------------------------------------------------------
(* The explore page: loadDetails and the network *)

InitDetails ==
  /\ ParserIdle
  /\ call = NoCall
  /\ ComparisonPageParsed
  /\ DetailsIdle
  /\ AuthIdle
  /\ RecommendIdle

\* The calls with call k standing at the given place, its requests being n.
callsWith(k, at, n) ==
  [detailCalls EXCEPT ![k] = [name |-> @.name, pc |-> at, net |-> n]]

\* Lines 242-246: an exception inside the try block ends call k in the
\* catch branch.
DetailsCatch(k, n) ==
  /\ view' = IF writesPage(k, Len(detailCalls)) THEN renderFailure(view) ELSE view
  /\ detailCalls' = callsWith(k, "failed", n)

\* Lines 136-241: call k populates the page from its three datasets, those
\* of a response that is not OK replaced as lines 133-134 say.
DetailsRender(k, n) ==
  /\ view' = IF writesPage(k, Len(detailCalls))
               THEN renderDetails(detailCalls[k].name, n["college"].body,
                      IF n["reviews"].ok THEN n["reviews"].body ELSE NoReviews,
                      IF n["placement"].ok THEN n["placement"].body ELSE NoPlacement)
               ELSE view
  /\ detailCalls' = callsWith(k, "rendered", n)

\* The request whose json() loadDetails awaits at pc.
awaitedRequest(at) == IF at = "details" THEN "college" ELSE at

\* Lines 132-134: the await after the one at pc, or "rendered" when no
\* json() is left to await: json() is called on a response only if it is OK.
afterJson(at, n) ==
  IF at = "details" /\ n["reviews"].ok THEN "reviews"
  ELSE IF at \in {"details", "reviews"} /\ n["placement"].ok THEN "placement"
  ELSE "rendered"

\* Lines 250-254, 120-130: the user clicks the load button with an
\* institute chosen (select.value, name here); loadDetails clears the page,
\* writes the label and sends its three requests, whether or not an earlier
\* call is still running. (With no institute chosen the handler only shows
\* an alert.)
LoadDetailsClick ==
  /\ \E name \in DetailNames :
       /\ detailCalls' =
            Append(SelectSeq(detailCalls, LAMBDA c : ~CallOver(c)),
                   [name |-> name, pc |-> "all",
                    net |-> [r \in DetailRequests |-> Requested]])
       /\ selName' = name
  /\ Cardinality({k \in 1..Len(detailCalls) : ~CallOver(detailCalls[k])}) <= MaxOverlap
  /\ view' = ClearedView
  /\ UNCHANGED <<parserVars, call, loadVars, authVars, recVars>>

\* Lines 126-132: a fetch of a call resolves; when it is the last of the
\* three, Promise.all resolves and the call throws if the details response
\* is not OK, else awaits its JSON.
DetailFetchResolves ==
  /\ \E k \in 1..Len(detailCalls) : \E r \in DetailRequests :
     \E s \in DetailResponses(r) :
       /\ detailCalls[k].net[r] = Requested
       /\ LET n == [detailCalls[k].net EXCEPT ![r] = s]
          IN  IF /\ detailCalls[k].pc = "all"
                 /\ \A q \in DetailRequests : n[q].st = "response"
                THEN IF n["college"].ok
                       THEN /\ detailCalls' = callsWith(k, "details", n)
                            /\ view' = view
                       ELSE DetailsCatch(k, n)
                ELSE /\ detailCalls' = callsWith(k, detailCalls[k].pc, n)
                     /\ view' = view
  /\ UNCHANGED selName
  /\ UNCHANGED <<parserVars, call, loadVars, authVars, recVars>>

\* Lines 126-130, 242-246: a fetch of a call rejects; Promise.all rejects
\* with it and the call ends in its catch branch.
DetailFetchRejects ==
  /\ \E k \in 1..Len(detailCalls) : \E r \in DetailRequests :
       /\ detailCalls[k].net[r] = Requested
       /\ LET n == [detailCalls[k].net EXCEPT ![r] = Rejected]
          IN  IF detailCalls[k].pc = "all"
                THEN DetailsCatch(k, n)
                ELSE /\ detailCalls' = callsWith(k, detailCalls[k].pc, n)
                     /\ view' = view
  /\ UNCHANGED selName
  /\ UNCHANGED <<parserVars, call, loadVars, authVars, recVars>>

\* Lines 132-134: the json() a call awaits resolves; the call awaits the
\* next, or renders.
DetailJsonResolves ==
  /\ \E k \in 1..Len(detailCalls) :
       LET c == detailCalls[k]
       IN  /\ c.pc \in {"details", "reviews", "placement"}
           /\ c.net[awaitedRequest(c.pc)].body # Unparseable
           /\ IF afterJson(c.pc, c.net) = "rendered"
                THEN DetailsRender(k, c.net)
                ELSE /\ detailCalls' = callsWith(k, afterJson(c.pc, c.net), c.net)
                     /\ view' = view
  /\ UNCHANGED selName
  /\ UNCHANGED <<parserVars, call, loadVars, authVars, recVars>>

\* Lines 132-134, 242-246: the json() a call awaits rejects (the body is
\* not JSON); the call ends in its catch branch.
DetailJsonRejects ==
  /\ \E k \in 1..Len(detailCalls) :
       LET c == detailCalls[k]
       IN  /\ c.pc \in {"details", "reviews", "placement"}
           /\ c.net[awaitedRequest(c.pc)].body = Unparseable
           /\ DetailsCatch(k, c.net)
  /\ UNCHANGED selName
  /\ UNCHANGED <<parserVars, call, loadVars, authVars, recVars>>

NextDetails ==
  \/ LoadDetailsClick
  \/ DetailFetchResolves
  \/ DetailFetchRejects
  \/ DetailJsonResolves
  \/ DetailJsonRejects

SpecDetails == InitDetails /\ [][NextDetails]_vars

---------------------------------------------------------------------------
(* The authentication modal: the user and the server *)

InitAuth ==
  /\ ParserIdle
  /\ call = NoCall
  /\ ComparisonPageParsed
  /\ DetailsIdle
  /\ AuthIdle
  /\ RecommendIdle

CancelMessage == "Google Sign-In cancelled or no email entered."

\* The submissions and Google sign-in clicks so far.
authEvents ==
  Len(sent) + Cardinality({k \in 1..Len(alerts) : alerts[k] = CancelMessage})

\* Lines 298-306, 309-314: the login or the signup button opens the modal.
OpenModal ==
  /\ ~reloaded
  /\ \E mode \in {"login", "signup"} :
       /\ isLoginMode' = (mode = "login")
       /\ submitLabel' = modalLabels(mode = "login").submit
       /\ toggleLinkText' = modalLabels(mode = "login").link
       /\ lastEvent' = [type |-> "open", mode |-> mode]
  /\ toggleListeners' = linkListenersAfter(toggleListeners)
  /\ UNCHANGED <<sent, inflight, alerts, reloaded>>
  /\ UNCHANGED <<parserVars, call, loadVars, detailVars, recVars>>

\* Lines 288-295, 345-348: a click on the toggle link runs toggleAuthMode
\* once per listener of the link; each run switches the mode, writes the
\* labels and replaces the link.
ToggleAuthMode ==
  /\ ~reloaded
  /\ toggleListeners > 0
  /\ isLoginMode' = toggled(isLoginMode, toggleListeners)
  /\ submitLabel' = modalLabels(toggled(isLoginMode, toggleListeners)).submit
  /\ toggleLinkText' = modalLabels(toggled(isLoginMode, toggleListeners)).link
  /\ toggleListeners' = linkListenersAfter(toggleListeners)
  /\ lastEvent' = [type |-> "toggle",
                   mode |-> IF toggled(isLoginMode, toggleListeners)
                              THEN "login" ELSE "signup"]
  /\ UNCHANGED <<sent, inflight, alerts, reloaded>>
  /\ UNCHANGED <<parserVars, call, loadVars, detailVars, recVars>>

\* Lines 351-365: the form is submitted; one request is sent to the
\* endpoint of the current mode.
SubmitForm ==
  /\ ~reloaded
  /\ authEvents < MaxAuthEvents
  /\ \E u \in Usernames : \E p \in Passwords :
       /\ sent' = Append(sent, Post(endpoint(isLoginMode), u, p))
       /\ lastEvent' = [type |-> "submit", username |-> u, password |-> p]
  /\ inflight' = inflight \cup {Len(sent) + 1}
  /\ UNCHANGED <<isLoginMode, submitLabel, toggleLinkText, toggleListeners,
                 alerts, reloaded>>
  /\ UNCHANGED <<parserVars, call, loadVars, detailVars, recVars>>

\* Lines 388-406: the Google button is clicked and the prompt answered;
\* without an email the handler alerts and returns, else one request is
\* sent.
GoogleClick ==
  /\ ~reloaded
  /\ authEvents < MaxAuthEvents
  /\ \E res \in PromptResults :
       /\ lastEvent' = [type |-> "google", prompt |-> res]
       /\ IF res.cancelled \/ res.value = ""
            THEN /\ alerts' = Append(alerts, CancelMessage)
                 /\ UNCHANGED <<sent, inflight>>
            ELSE /\ sent' = Append(sent, Post("/google_auth", res.value,
                                              "google_verified_password"))
                 /\ inflight' = inflight \cup {Len(sent) + 1}
                 /\ UNCHANGED alerts
  /\ UNCHANGED <<isLoginMode, submitLabel, toggleLinkText, toggleListeners,
                 reloaded>>
  /\ UNCHANGED <<parserVars, call, loadVars, detailVars, recVars>>

\* Lines 366-382, 407-419: a request is answered; the handlers of its
\* promise chain run, the form's with the mode as it is now.
AuthResponse ==
  /\ ~reloaded
  /\ \E k \in inflight : \E out \in AuthOutcomes :
       LET re == IF sent[k].url = "/google_auth"
                   THEN googleReaction(out)
                   ELSE formReaction(out,
                          handlerMode(isLoginMode, sent[k].url = "/login"))
       IN  /\ alerts' = Append(alerts, re.alert)
           /\ reloaded' = re.reload
           /\ isLoginMode' = IF re.openLogin THEN TRUE ELSE isLoginMode
           /\ submitLabel' = IF re.openLogin THEN modalLabels(TRUE).submit
                             ELSE submitLabel
           /\ toggleLinkText' = IF re.openLogin THEN modalLabels(TRUE).link
                                ELSE toggleLinkText
           /\ toggleListeners' = IF re.openLogin
                                   THEN linkListenersAfter(toggleListeners)
                                   ELSE toggleListeners
           /\ inflight' = inflight \ {k}
           /\ lastEvent' = [type |-> "response", req |-> k, out |-> out]
  /\ UNCHANGED sent
  /\ UNCHANGED <<parserVars, call, loadVars, detailVars, recVars>>

NextAuth ==
  \/ OpenModal
  \/ ToggleAuthMode
  \/ SubmitForm
  \/ GoogleClick
  \/ AuthResponse

SpecAuth == InitAuth /\ [][NextAuth]_vars

---------------------------------------------------------------------------
(* renderBasicInfo, called on a loaded college table *)

\* college.csv has been parsed into collegeData.
InitRender ==
  /\ input \in CollegeInputs
  /\ text = Render(input)
  /\ pc = "done"
  /\ lines = splitLines(text)
  /\ headers = splitCSVLine(splitLines(text)[1])
  /\ i = Len(splitLines(text))
  /\ line = <<>>
  /\ outRows = parseCSV(text)
  /\ call = NoCall
  /\ loadPc = "idle"
  /\ net = [f \in Files |-> NotRequested]
  /\ rankData = <<>>
  /\ collegeData = parseCSV(text)
  /\ placementData = <<>>
  /\ reviewsData = <<>>
  /\ populated = 0
  /\ options = [institute |-> {}, program |-> {}]
  /\ selected = [id \in SelectIds |-> <<>>]
  /\ disabled = TRUE
  /\ timerPending = FALSE
  /\ compareListeners = 0
  /\ panels = NoPanels
  /\ earlyReads = {}
  /\ compared = MarkupFields
  /\ enabledClass = FALSE
  /\ clickRuns = 0
  /\ DetailsIdle
  /\ AuthIdle
  /\ RecommendIdle

\* Lines 194-214: renderBasicInfo(side, institute) looks up its row.
RenderBasicInfoCall ==
  /\ call = NoCall
  /\ \E inst \in InstituteArgs :
       call' = [fn |-> "renderBasicInfo", arg |-> inst,
                ret |-> findCollegeRow(collegeData, Str(inst.value))]
  /\ UNCHANGED <<parserVars, loadVars, detailVars, authVars, recVars>>

NextRender == RenderBasicInfoCall

SpecRender == InitRender /\ [][NextRender]_vars

---------------------------------------------------------------------------
(* doCompare on loaded placement and reviews tables *)

\* A table text with one line per record and no quoted field.
TableInput(names, records) ==
  [header |-> [line |-> Join(names, <<COMMA>>), names |-> names],
   recs   |-> [k \in 1..Len(records) |->
                 [lines |-> << Join(records[k], <<COMMA>>) >>,
                  fields |-> records[k]]],
   tail |-> <<>>, eol |-> <<LF>>, trail |-> FALSE]

PlacementColumns ==
  << <<"I","n","s","t","i","t","u","t","e">>,
     <<"a","v","g","_","c","t","c">>,
     <<"m","e","d","i","a","n">>,
     <<"h","i","g","h","e","s","t">>,
     <<"r","a","n","k">>,
     <<"r","a","t","i","n","g">> >>

ReviewsColumns ==
  << <<"c","o","l","l","e","g","e","_","n","a","m","e">>,
     <<"s","e","n","t","i","m","e","n","t">>,
     <<"m","e","s","s">>,
     <<"p","r","o","f","e","s","s","o","r">>,
     <<"c","a","m","p","u","s">>,
     <<"i","n","f","r","a","s","t","r","u","c","t","u","r","e">>,
     <<"o","v","e","r","a","l","l">> >>

\* Placement records: institute, average, median and highest CTC, rank and
\* rating.
PlacementA1 ==
  << <<"A">>, <<"7">>, <<"1","2">>, <<"7",".","5">>, <<"3">>, <<"4">> >>
PlacementB1 ==
  << <<"B">>, <<"1","2">>, <<"1","2">>, <<"n","/","a">>, <<"1","0">>, <<"8","0">> >>
PlacementA2 ==
  << <<"A">>, <<>>, <<"9",SP,"L">>, <<"7",".","5">>, <<>>, <<>> >>
PlacementB2 ==
  << <<"B">>, <<"7">>, <<"1","2",SP,"L">>, <<"7",".","2","5">>, <<"3">>, <<"x">> >>

\* Reviews records: institute and the six scores.
ReviewsA1 ==
  << <<"A">>, <<"3">>, <<"4",".","5">>, <<"2">>, <<"5">>, <<"1">>, <<"4">> >>
ReviewsB1 ==
  << <<"B">>, <<"4">>, <<"4",".","5","0">>, <<"x">>, <<"0","5">>, <<"-","1">>, <<>> >>

PlacementInputs ==
  { TableInput(PlacementColumns, <<>>),
    TableInput(PlacementColumns, <<PlacementA1, PlacementB1>>),
    TableInput(PlacementColumns, <<PlacementA2, PlacementB2>>),
    TableInput(PlacementColumns, <<PlacementB1, PlacementB2>>) }

ReviewsInputs ==
  { TableInput(ReviewsColumns, <<>>),
    TableInput(ReviewsColumns, <<ReviewsA1, ReviewsB1>>),
    TableInput(ReviewsColumns, <<ReviewsB1>>) }

\* The rank table of each year: institutes A, B and C with program X.
RecordBX == [lines |-> << <<"B",COMMA,"X">> >>, fields |-> << <<"B">>, <<"X">> >>]
RecordCX == [lines |-> << <<"C",COMMA,"X">> >>, fields |-> << <<"C">>, <<"X">> >>]
CompareRankInput ==
  [header |-> InstituteProgramHeader, recs |-> <<RecordAX, RecordBX, RecordCX>>,
   tail |-> <<>>, eol |-> <<LF>>, trail |-> FALSE]

\* The rows parseCSV builds from the records of a table text of this form
\* (lines 33-38).
TableRows(in) ==
  [k \in 1..Len(in.recs) |->
     zipRow(in.header.names, in.recs[k].fields, 1, EmptyObj)]

\* The file each request was answered with.
CompareFile(f, pIn, rIn) ==
  IF f \in RankFiles THEN CompareRankInput
  ELSE IF f = PLACEMENT_FILE THEN pIn
  ELSE IF f = REVIEWS_FILE THEN rIn
  ELSE FileInput(f)

\* loadAll has returned: every file was read, and
\* populateInstituteProgramLists has filled the selects.
InitCompare ==
  /\ ParserIdle
  /\ call = NoCall
  /\ loadPc = "done"
  /\ \E pIn \in PlacementInputs : \E rIn \in ReviewsInputs :
       /\ net = [f \in Files |->
                   [st |-> "bodyRead", ok |-> TRUE, in |-> CompareFile(f, pIn, rIn)]]
       /\ placementData = TableRows(pIn)
       /\ reviewsData = TableRows(rIn)
  /\ rankData = [y \in {YEARS[k] : k \in 1..Len(YEARS)} |->
                   parseCSV(Render(CompareRankInput))]
  /\ collegeData = parseCSV(Render(FileInput(COLLEGE_FILE)))
  /\ populated = 1
  /\ options = [institute |-> columnValues(rankData, InstituteCandidates),
                program |-> columnValues(rankData, ProgramCandidates)]
  /\ selected = [id \in SelectIds |-> <<>>]
  /\ disabled = TRUE
  /\ timerPending = FALSE
  /\ compareListeners = 1
  /\ panels = NoPanels
  /\ earlyReads = {}
  /\ compared = MarkupFields
  /\ enabledClass = FALSE
  /\ clickRuns = 0
  /\ DetailsIdle
  /\ AuthIdle
  /\ RecommendIdle

NextCompare == SelectChange \/ CompareClick

SpecCompare == InitCompare /\ [][NextCompare]_vars

----------------------------------------------------------------------------
(* The recommendations page: the form, the server and the sort controls *)

InitRecommend ==
  /\ ParserIdle
  /\ call = NoCall
  /\ ComparisonPageParsed
  /\ DetailsIdle
  /\ AuthIdle
  /\ RecommendIdle

\* A request has been handled to its end.
RequestOver(q) == q.st \in {"done", "failed"}

\* The requests with request k standing at the given place, its response
\* being r.
requestsWith(k, at, r) ==
  [recRequests EXCEPT ![k] = [program |-> @.program, st |-> at, res |-> r]]

NoResponse == [ok |-> FALSE, body |-> Unparseable]

\* The record of a call of applyClientSort.
SortCall(results, metric, sorted) ==
  [fn |-> "applyClientSort", arg |-> results, metric |-> metric,
   argAfter |-> argumentAfterSort(results, sorted), ret |-> sorted]

\* Lines 420-422, 427-429: the handler stores data and renders it sorted.
StoreAndRender(data) ==
  \E sorted \in applyClientSort(data, metricOf(sortMetric)) :
    /\ LAST_RESULTS' = argumentAfterSort(data, sorted)
    /\ resultsList' = renderResultsList(sorted)
    /\ call' = SortCall(data, metricOf(sortMetric), sorted)

\* Lines 388-414: the form is submitted with a rank and a program; without
\* one of them the listener only shows a message, else it shows a message
\* and sends the request, whether or not an earlier one is still awaited.
\* Showing a message empties the results list.
RecommendSubmit ==
  /\ Cardinality({k \in 1..Len(recRequests) : ~RequestOver(recRequests[k])})
       <= MaxPending
  /\ \E rank \in {"", "100"} : \E program \in Programs \cup {""} :
       IF rank = "" \/ program = ""
         THEN /\ recMessage' = showMessage("error", "Please provide Rank and Program.")
              /\ UNCHANGED recRequests
         ELSE /\ recMessage' = showMessage("info", "Fetching recommendations from server...")
              /\ recRequests' =
                   Append(SelectSeq(recRequests, LAMBDA q : ~RequestOver(q)),
                          [program |-> program, st |-> "fetch", res |-> NoResponse])
  /\ resultsList' = EmptiedList
  /\ UNCHANGED <<LAST_RESULTS, sortMetric>>
  /\ UNCHANGED <<parserVars, call, loadVars, detailVars, authVars>>

\* Lines 410-415: the fetch of a request resolves with a response, OK or
\* not; the listener awaits its JSON.
RecommendFetchResolves ==
  /\ \E k \in 1..Len(recRequests) : \E ok \in BOOLEAN :
       /\ recRequests[k].st = "fetch"
       /\ recRequests' = requestsWith(k, "json", [ok |-> ok, body |-> Unparseable])
  /\ UNCHANGED <<LAST_RESULTS, resultsList, sortMetric, recMessage>>
  /\ UNCHANGED <<parserVars, call, loadVars, detailVars, authVars>>

\* Lines 410-414, 430-433: the fetch of a request rejects; the listener ends
\* in its catch branch, which shows a message.
RecommendFetchRejects ==
  /\ \E k \in 1..Len(recRequests) :
       /\ recRequests[k].st = "fetch"
       /\ recRequests' = requestsWith(k, "failed", NoResponse)
  /\ recMessage' =
       showMessage("error", "Error fetching recommendations. See server logs.")
  /\ resultsList' = EmptiedList
  /\ UNCHANGED <<LAST_RESULTS, sortMetric>>
  /\ UNCHANGED <<parserVars, call, loadVars, detailVars, authVars>>

\* Lines 415-429: res.json() resolves with the result; the listener shows
\* the message of a result that is not a success, which empties the list,
\* and stores and renders the data of a result that has some.
RecommendJsonResolves ==
  /\ \E k \in 1..Len(recRequests) :
     \E result \in ResultBodies(recRequests[k].program) :
       LET ok == recRequests[k].res.ok
       IN  /\ recRequests[k].st = "json"
           /\ recRequests' = requestsWith(k, "done", [ok |-> ok, body |-> result])
           /\ IF ~handlesResponse(k, Len(recRequests))
                THEN UNCHANGED <<LAST_RESULTS, resultsList, recMessage, call>>
                ELSE /\ recMessage' =
                          IF ok /\ result.status = "success" THEN NoMessage
                          ELSE showMessage(
                                 IF result.status = "warning" THEN "warning" ELSE "error",
                                 IF result.message # "" THEN result.message
                                 ELSE "No results.")
                     /\ IF storesData(ok, result)
                          THEN StoreAndRender(coalesce(result.data, Arr(<<>>)).items)
                          ELSE /\ resultsList' = EmptiedList
                               /\ UNCHANGED <<LAST_RESULTS, call>>
  /\ UNCHANGED sortMetric
  /\ UNCHANGED <<parserVars, loadVars, detailVars, authVars>>

\* Lines 415, 430-433: res.json() rejects (the body is not JSON); the
\* listener ends in its catch branch, which shows a message.
RecommendJsonRejects ==
  /\ \E k \in 1..Len(recRequests) :
       /\ recRequests[k].st = "json"
       /\ recRequests' = requestsWith(k, "failed", recRequests[k].res)
  /\ recMessage' =
       showMessage("error", "Error fetching recommendations. See server logs.")
  /\ resultsList' = EmptiedList
  /\ UNCHANGED <<LAST_RESULTS, sortMetric>>
  /\ UNCHANGED <<parserVars, call, loadVars, detailVars, authVars>>

\* The user chooses a metric in the select client_sort_metric.
ChooseMetric ==
  /\ \E metric \in SortMetrics :
       /\ metric # sortMetric
       /\ sortMetric' = metric
  /\ UNCHANGED <<LAST_RESULTS, resultsList, recRequests, recMessage>>
  /\ UNCHANGED <<parserVars, call, loadVars, detailVars, authVars>>

\* Lines 437-441: a click on Apply Sort renders applyClientSort(LAST_RESULTS).
ApplySortClick ==
  /\ \E sorted \in applyClientSort(LAST_RESULTS, metricOf(sortMetric)) :
       /\ LAST_RESULTS' = argumentAfterSort(LAST_RESULTS, sorted)
       /\ resultsList' = renderResultsList(sorted)
       /\ call' = SortCall(LAST_RESULTS, metricOf(sortMetric), sorted)
  /\ UNCHANGED <<sortMetric, recRequests, recMessage>>
  /\ UNCHANGED <<parserVars, loadVars, detailVars, authVars>>

\* Lines 442-447: a click on Reset sets the select to the default metric
\* and renders LAST_RESULTS as it is.
ResetSortClick ==
  /\ sortMetric' = PREDICTED_CLOSING_RANK
  /\ resultsList' = renderResultsList(LAST_RESULTS)
  /\ call' = [fn |-> "renderResultsList", arg |-> LAST_RESULTS]
  /\ UNCHANGED <<LAST_RESULTS, recRequests, recMessage>>
  /\ UNCHANGED <<parserVars, loadVars, detailVars, authVars>>

NextRecommend ==
  \/ RecommendSubmit
  \/ RecommendFetchResolves
  \/ RecommendFetchRejects
  \/ RecommendJsonResolves
  \/ RecommendJsonRejects
  \/ ChooseMetric
  \/ ApplySortClick
  \/ ResetSortClick

SpecRecommend == InitRecommend /\ [][NextRecommend]_vars

----------------------------------------------------------------------------
(* applyClientSort and Reset on the results a response has left *)

\* The values of the three keys that the items of the sorted arrays have:
\* numbers, a closing rank under the second key only, no key at all, empty
\* strings, and a score that is not a number.
ItemShapes ==
  { <<Str(<<"5">>), Undefined, Str(<<"8">>)>>,
    <<Str(<<"1","0">>), Undefined, Str(<<"3">>)>>,
    <<Undefined, Str(<<"7">>), Str(<<"L","o","w">>)>>,
    <<Undefined, Undefined, Undefined>>,
    <<Str(<<>>), Undefined, Str(<<>>)>> }
ItemNames == <<"K", "L", "M", "N">>

\* The arrays of at most MaxItems items, the k-th named ItemNames[k].
SortInputs ==
  UNION { { [k \in 1..n |-> Item(ItemNames[k], f[k][1], f[k][2], f[k][3])] :
              f \in [1..n -> ItemShapes] } :
          n \in 0..MaxItems }

\* The page after a response has stored its data and Reset was clicked.
InitSort ==
  /\ ParserIdle
  /\ call = NoCall
  /\ ComparisonPageParsed
  /\ DetailsIdle
  /\ AuthIdle
  /\ LAST_RESULTS \in SortInputs
  /\ resultsList = renderResultsList(LAST_RESULTS)
  /\ sortMetric = PREDICTED_CLOSING_RANK
  /\ recRequests = <<>>
  /\ recMessage = NoMessage

NextSort == ChooseMetric \/ ApplySortClick \/ ResetSortClick

SpecSort == InitSort /\ [][NextSort]_vars

---------------------------------------------------------------------------
(* What an input is written to mean *)

\* The field count of a record text: its commas outside quotes, plus one.
FieldCount(str) ==
  1 + Cardinality({k \in 1..Len(str) :
        /\ str[k] = COMMA
        /\ Cardinality({m \in 1..(k - 1) : str[m] = QUOTE}) % 2 = 0})

\* The complete records after the header line, in source order: the records
\* of the input and, when the text ends with a line terminator right after
\* them, the empty last line.
LogicalRecords(in) ==
  [k \in 1..Len(in.recs) |->
     [str |-> Join(in.recs[k].lines, <<LF>>), fields |-> in.recs[k].fields]]
  \o (IF in.trail /\ in.tail = <<>>
        THEN << [str |-> <<>>, fields |-> << <<>> >>] >>
        ELSE <<>>)

\* The row a record stands for: each column name with the field of its
\* column (the last such column, when a name occurs twice).
RowOf(names, fields) ==
  LET first == {j \in 1..Len(names) : \A m \in 1..(j - 1) : names[m] # names[j]}
      order == CHOOSE f \in [1..Cardinality(first) -> first] :
                 \A a, b \in 1..Cardinality(first) : a < b => f[a] < f[b]
      last(x) == CHOOSE j \in 1..Len(names) :
                   names[j] = x /\ \A m \in (j + 1)..Len(names) : names[m] # x
  IN  [keys |-> [k \in 1..Cardinality(first) |-> names[order[k]]],
       val  |-> [x \in {names[j] : j \in 1..Len(names)} |-> fields[last(x)]]]

\* The rows of the records whose field count is the header's.
ExpectedRows(in) ==
  LET n == FieldCount(in.header.line)
      WellFormed(r) == FieldCount(r.str) = n
      kept == SelectSeq(LogicalRecords(in), WellFormed)
  IN  [k \in 1..Len(kept) |-> RowOf(in.header.names, kept[k].fields)]

HasQuote(str) == \E k \in 1..Len(str) : str[k] = QUOTE

---------------------------------------------------------------------------
(* Claims about parseCSV *)

\* The texts of C1: every body line is one record of unquoted fields, as
\* many as the header has columns.
AllRecordsPlain(in) ==
  /\ in.tail = <<>>
  /\ \A k \in 1..Len(in.recs) :
       /\ Len(in.recs[k].lines) = 1
       /\ ~HasQuote(in.recs[k].lines[1])
       /\ FieldCount(in.recs[k].lines[1]) = FieldCount(in.header.line)

\* C1: for a text with an N-column header and R body lines of exactly N
\* unquoted fields each, with or without a final line terminator, parseCSV
\* returns exactly R rows, and row r maps each header name to the trimmed
\* field of its column in body line r.
C1_RowPerBodyLine ==
  (pc = "done" /\ AllRecordsPlain(input)) =>
    /\ Len(outRows) = Len(input.recs)
    /\ \A r \in 1..Len(input.recs) : \A j \in 1..Len(input.header.names) :
         LET name == input.header.names[j]
         IN  (\A m \in 1..Len(input.header.names) :
                 m # j => input.header.names[m] # name)
             => /\ name \in OwnKeys(outRows[r])
                /\ outRows[r].val[name] = input.recs[r].fields[j]

HasMultiLineRecord(in) == \E k \in 1..Len(in.recs) : Len(in.recs[k].lines) > 1

\* C2: a record one of whose quoted fields contains a line break is returned
\* as exactly one row, holding the rejoined field, and the rows of the
\* records before and after it are the rows those records stand for.
C2_MultiLineRecordIsOneRow ==
  (pc = "done" /\ HasMultiLineRecord(input)) =>
    outRows = ExpectedRows(input)

\* A text with a record before, a multi-line record and a record after has
\* been parsed into three or more rows.
C2_Witness ==
  /\ pc = "done"
  /\ input \in MultiLineInputs
  /\ input.eol = <<CR, LF>>
  /\ Len(outRows) >= 3
  /\ outRows[2].val[<<"h">>] = <<"a", LF, "b">>

HasRaggedRecord(in) ==
  \E k \in 1..Len(in.recs) :
    FieldCount(Join(in.recs[k].lines, <<LF>>)) # FieldCount(in.header.line)

\* C3: a record whose field count differs from the header's column count
\* contributes no row (it is neither padded nor truncated) and every
\* well-formed record of the same text is still returned, in order.
C3_RaggedRecordDropped ==
  (pc = "done" /\ HasRaggedRecord(input)) =>
    outRows = ExpectedRows(input)

\* A text with a ragged record and a well-formed one has been parsed, and
\* rows were returned.
C3_Witness ==
  /\ pc = "done"
  /\ HasRaggedRecord(input)
  /\ Len(input.recs) = 2
  /\ Len(outRows) = 1

\* C6: the text Institute,Program / A,X / B,Y (no final line terminator)
\* parses to the rows {Institute: A, Program: X} and {Institute: B,
\* Program: Y}, in that order.
C6_EndToEnd ==
  (pc = "done" /\ text = Render(EndToEndInput)) =>
    outRows =
      << [keys |-> InstituteProgramHeader.names,
          val  |-> (InstituteProgramHeader.names[1] :> <<"A">>)
                   @@ (InstituteProgramHeader.names[2] :> <<"X">>)],
         [keys |-> InstituteProgramHeader.names,
          val  |-> (InstituteProgramHeader.names[1] :> <<"B">>)
                   @@ (InstituteProgramHeader.names[2] :> <<"Y">>)] >>

\* The end-to-end text has been parsed.
C6_Witness ==
  pc = "done" /\ input = EndToEndInput /\ Len(text) = 25 /\ Len(outRows) = 2

\* C7: every row returned by parseCSV has exactly the key set of the header
\* line of its text, the set of trimmed header names.
C7_RowKeysAreHeaderNames ==
  \A r \in 1..Len(outRows) :
    OwnKeys(outRows[r]) =
      {input.header.names[j] : j \in 1..Len(input.header.names)}

\* C10: no key and no value of a returned row contains a double quote.
C10_NoQuoteInRows ==
  \A r \in 1..Len(outRows) : \A x \in OwnKeys(outRows[r]) :
    ~HasQuote(x) /\ ~HasQuote(outRows[r].val[x])

\* A record holding a doubled quote has become a row.
C10_Witness ==
  /\ pc = "done"
  /\ \E k \in 1..Len(input.recs) :
       input.recs[k].lines = << <<QUOTE,"a",QUOTE,QUOTE,"b",QUOTE>> >>
  /\ \E r \in 1..Len(outRows) : outRows[r].val[<<"h">>] = <<"a","b">>

---------------------------------------------------------------------------
(* Claims about getVal *)

toUpperCaseChar(c) ==
  IF \E k \in 1..26 : LowerLetters[k] = c
    THEN UpperLetters[CHOOSE k \in 1..26 : LowerLetters[k] = c]
    ELSE c

toUpperCase(s) == [k \in 1..Len(s) |-> toUpperCaseChar(s[k])]

\* Candidate n names a key of the row, exactly or up to letter case.
MatchesKey(row, n) ==
  \E x \in OwnKeys(row) : x = n \/ toLowerCase(x) = toLowerCase(n)

\* The value the row holds for candidate n: that of the key n itself when the
\* row has it, else that of the first key that equals n up to letter case.
MatchedValue(row, n) ==
  IF n \in OwnKeys(row) THEN row.val[n]
  ELSE row.val[row.keys[CHOOSE k \in 1..Len(row.keys) :
         /\ toLowerCase(row.keys[k]) = toLowerCase(n)
         /\ \A m \in 1..(k - 1) : toLowerCase(row.keys[m]) # toLowerCase(n)]]

\* C4: getVal returns the first matching value, an exact key match being
\* tried before a case-insensitive match across all keys of the row, and it
\* returns the empty string exactly when no candidate name matches a key of
\* the row exactly or case-insensitively. (Stated for candidates that name
\* no member inherited from Object.prototype.)
C4_FirstMatchElseEmptyExactly ==
  ( /\ call.fn = "getVal"
    /\ \A n \in 1..Len(call.names) : call.names[n] \notin ObjectPrototypeNames ) =>
    LET hits == {n \in 1..Len(call.names) : MatchesKey(call.row, call.names[n])}
    IN  /\ hits # {} =>
             call.ret = MatchedValue(call.row,
                          call.names[CHOOSE n \in hits : \A m \in hits : n <= m])
        /\ (call.ret = <<>>) <=> (hits = {})

\* C4 as amended: getVal returns the value of the first candidate, in list
\* order, that the row has: for each candidate the property of that name
\* (an own key or a member inherited from Object.prototype) is tried first,
\* then the first key that equals it up to letter case; it returns the empty
\* string when no candidate matches, and the matched value may be empty too.
C4_FirstMatchingCandidate ==
  call.fn = "getVal" =>
    LET hits == {n \in 1..Len(call.names) :
                   \/ MatchesKey(call.row, call.names[n])
                   \/ call.names[n] \in ObjectPrototypeNames}
        first == call.names[CHOOSE n \in hits : \A m \in hits : n <= m]
    IN  IF hits = {} THEN call.ret = <<>>
        ELSE IF first \in ObjectPrototypeNames /\ first \notin OwnKeys(call.row)
          THEN call.ret = InheritedMember
        ELSE call.ret = MatchedValue(call.row, first)

\* getVal has returned the value of a key that its first candidate matches
\* only up to letter case, although its second candidate is a key.
C4_Witness ==
  /\ call.fn = "getVal"
  /\ call.names = << <<"k">>, <<"h">> >>
  /\ <<"h">> \in OwnKeys(call.row)
  /\ call.row.val[<<"h">>] = <<"a">>
  /\ call.ret = <<"b">>

\* Names that differ from k only in letter case or in leading or trailing
\* white space.
KeyVariants(k) ==
  {toLowerCase(k), toUpperCase(k), <<SP>> \o k, k \o <<TAB>>, trim(k)}

\* C5: for every row produced by parseCSV and every two candidate names that
\* differ only in letter case or in leading or trailing white space, getVal
\* returns the same value for both. (Stated for names that name no member
\* inherited from Object.prototype.)
C5_SameValueForKeyVariants ==
  ( /\ call.fn = "getVal"
    /\ \E r \in 1..Len(outRows) : call.row = outRows[r]
    /\ Len(call.names) = 1
    /\ call.names[1] \notin ObjectPrototypeNames ) =>
    \A k2 \in KeyVariants(call.names[1]) :
      getVal(call.row, <<k2>>) = call.ret

InstituteName == <<"I","n","s","t","i","t","u","t","e">>
CollegeNameName == <<"C","o","l","l","e","g","e","_","N","a","m","e">>

\* The candidate list names both headers, in any letter case.
NamesBothHeaders(names) ==
  /\ \E n \in 1..Len(names) : toLowerCase(names[n]) = toLowerCase(InstituteName)
  /\ \E n \in 1..Len(names) : toLowerCase(names[n]) = toLowerCase(CollegeNameName)

\* No candidate names another column of the row.
NamesOnlyNameColumn(names, row) ==
  \A n \in 1..Len(names) : \A x \in OwnKeys(row) :
    toLowerCase(x) = toLowerCase(names[n]) => x \in {InstituteName, CollegeNameName}

\* The rows of the tables of the model.
AccessorRows ==
  UNION { {parseCSV(Render(in))[r] : r \in 1..Len(parseCSV(Render(in)))} :
          in \in AccessorInputs }

\* C8: for a row that stores an institute name under the header Institute
\* and a row of another table that stores the same name under College_Name,
\* getVal with a candidate list naming both headers (in any letter case, and
\* no other column) returns the stored name for the one and the same value
\* for the other.
C8_SameNameAcrossHeaders ==
  ( /\ call.fn = "getVal"
    /\ InstituteName \in OwnKeys(call.row)
    /\ NamesBothHeaders(call.names)
    /\ NamesOnlyNameColumn(call.names, call.row) ) =>
    /\ call.ret = call.row.val[InstituteName]
    /\ \A r2 \in AccessorRows :
         ( /\ CollegeNameName \in OwnKeys(r2)
           /\ r2.val[CollegeNameName] = call.row.val[InstituteName]
           /\ NamesOnlyNameColumn(call.names, r2) ) =>
         getVal(r2, call.names) = call.ret

\* getVal has read the institute A of an Institute row by the candidate list
\* of renderBasicInfo, and a College_Name row holds the same institute.
C8_Witness ==
  /\ call.fn = "getVal"
  /\ call.names = CollegeNameCandidates
  /\ InstituteName \in OwnKeys(call.row)
  /\ call.ret = <<"A">>
  /\ \E r2 \in AccessorRows :
       CollegeNameName \in OwnKeys(r2) /\ r2.val[CollegeNameName] = <<"A">>

---------------------------------------------------------------------------
(* Claims about normalizeName *)

\* s with every white-space character doubled.
RECURSIVE Widen(_)
Widen(s) ==
  IF s = <<>> THEN <<>>
  ELSE (IF s[1] \in WhiteSpace THEN <<s[1], s[1]>> ELSE <<s[1]>>)
         \o Widen(Tail(s))

\* Strings that differ from s only in letter case, in leading or trailing
\* white space, or in the length of white-space runs.
SpacingAndCaseVariants(s) ==
  {toLowerCase(s), toUpperCase(s), <<SP>> \o s, s \o <<TAB>>,
   <<TAB, SP>> \o s \o <<SP>>, Widen(s)}

IsTrimmed(s) ==
  s # <<>> => (s[1] \notin WhiteSpace /\ s[Len(s)] \notin WhiteSpace)

IsSingleSpaced(s) ==
  /\ \A k \in 1..Len(s) : s[k] \in WhiteSpace => s[k] = SP
  /\ \A k \in 1..(Len(s) - 1) : ~(s[k] = SP /\ s[k + 1] = SP)

IsLowerCase(s) == \A k \in 1..Len(s) : \A u \in 1..26 : s[k] # UpperLetters[u]

\* C9: normalizeName maps values that differ only in letter case, in leading
\* or trailing white space or in the length of internal white-space runs to
\* the same string; its result is trimmed, single-spaced and lowercase;
\* applying it twice gives what applying it once gives; undefined and null
\* map to the empty string.
C9_NormalizeNameCanonical ==
  call.fn = "normalizeName" =>
    IF call.arg \in {Undefined, Null} THEN call.ret = <<>>
    ELSE /\ \A v \in SpacingAndCaseVariants(call.arg.chars) :
              normalizeName(Str(v)) = call.ret
         /\ IsTrimmed(call.ret)
         /\ IsSingleSpaced(call.ret)
         /\ IsLowerCase(call.ret)
         /\ normalizeName(Str(call.ret)) = call.ret

\* normalizeName has collapsed a mixed-case name with a two-character
\* white-space run.
C9_Witness ==
  /\ call.fn = "normalizeName"
  /\ call.arg = Str(<<"B", SP, TAB, "a">>)
  /\ call.ret = <<"b", SP, "a">>

---------------------------------------------------------------------------
(* Claims about loadAll *)

\* The year each rank file is the file of.
FileYear ==
  [f \in RankFiles |->
     IF f = "rank_2021.csv" THEN 2021
     ELSE IF f = "rank_2022.csv" THEN 2022
     ELSE IF f = "rank_2023.csv" THEN 2023
     ELSE IF f = "rank_2024.csv" THEN 2024 ELSE 2025]

\* The slot of file f has been written and holds rows.
SlotHolds(f, rows) ==
  IF f \in RankFiles
    THEN FileYear[f] \in DOMAIN rankData /\ rankData[FileYear[f]] = rows
  ELSE IF f = COLLEGE_FILE THEN collegeData = rows
  ELSE IF f = PLACEMENT_FILE THEN placementData = rows
  ELSE reviewsData = rows

\* The slot of file f is as the script created it.
SlotUntouched(f) ==
  IF f \in RankFiles THEN FileYear[f] \notin DOMAIN rankData
  ELSE SlotHolds(f, <<>>)

LoadFailed(f) == net[f].st \in {"rejected", "bodyRejected"}

AllSettled == \A f \in Files : Settled(net[f])

\* C11: populateInstituteProgramLists runs only after the loads of all five
\* rank files and of the college, placement and reviews files have settled
\* (each has stored its result), whatever the order of the completions, and
\* it runs exactly once per call of loadAll: never twice, and once by the
\* time loadAll returns.
C11_PopulateOnceAfterAllLoads ==
  /\ populated <= 1
  /\ (populated = 1) <=> (loadPc = "done")
  /\ populated >= 1 =>
       \A f \in Files : Settled(net[f]) /\ ~(f \in RankFiles /\ SlotUntouched(f))

\* loadAll has returned after a rank file failed to load, and the selects
\* were filled from the other years.
C11_Witness ==
  /\ loadPc = "done"
  /\ populated = 1
  /\ net["rank_2022.csv"] = Rejected
  /\ options.institute = { <<"A">> }

---------------------------------------------------------------------------
(* Claims about loadDetails *)

\* A request of loadDetails is over, and how.
DetailOver(r) == detailNet[r].st \in {"rejected", "response"}
DetailFailed(r) ==
  detailNet[r] = Rejected \/ (detailNet[r].st = "response" /\ ~detailNet[r].ok)
DetailLoaded(r) ==
  /\ detailNet[r].st = "response"
  /\ detailNet[r].ok
  /\ detailNet[r].body \in Payloads(r)

\* The college details of the response are on the page.
DetailsShown ==
  /\ detailPc = "rendered"
  /\ view.title = IF detailNet["college"].body.institute_name # ""
                    THEN detailNet["college"].body.institute_name
                    ELSE detailName

\* C14: when the college-details request succeeds and the reviews request
\* or the placement request fails (a response that is not OK, or a rejected
\* fetch), the failed dataset is taken as empty and the college details are
\* rendered all the same, with the placeholder texts for the missing
\* reviews and placement fields.
C14_OptionalFailureDegrades ==
  ( /\ detailPc \in {"rendered", "failed"}
    /\ \A r \in DetailRequests : DetailOver(r)
    /\ DetailLoaded("college")
    /\ \A r \in {"reviews", "placement"} : DetailFailed(r) \/ DetailLoaded(r)
    /\ \E r \in {"reviews", "placement"} : DetailFailed(r) )
  => /\ DetailsShown
     /\ DetailFailed("reviews") =>
          view.reviewsList =
            [msg |-> "No reviews in reviews.csv for this institute.",
             items |-> <<>>]
     /\ DetailFailed("placement") =>
          view.placementAvg =
            IF detailNet["college"].body.avg_ctc # ""
              THEN detailNet["college"].body.avg_ctc ELSE Placeholder

---------------------------------------------------------------------------
(* Claims about the authentication modal *)

\* C15: each submission of the form sends exactly one POST whose JSON body
\* is {username, password}, to /login when isLoginMode is true at the time
\* of the submission and to /signup otherwise; a click on the Google button
\* sends exactly one POST to /google_auth when a non-empty email was entered
\* and no request when the prompt was cancelled or left empty; nothing else
\* sends a request.
C15_OnePostPerSubmission ==
  [][ /\ lastEvent'.type = "submit" =>
           sent' = Append(sent,
             [method |-> "POST",
              url |-> IF isLoginMode THEN "/login" ELSE "/signup",
              body |-> [username |-> lastEvent'.username,
                        password |-> lastEvent'.password]])
      /\ lastEvent'.type = "google" =>
           IF lastEvent'.prompt.cancelled \/ lastEvent'.prompt.value = ""
             THEN sent' = sent
             ELSE /\ Len(sent') = Len(sent) + 1
                  /\ SubSeq(sent', 1, Len(sent)) = sent
                  /\ sent'[Len(sent')].method = "POST"
                  /\ sent'[Len(sent')].url = "/google_auth"
                  /\ sent'[Len(sent')].body.username = lastEvent'.prompt.value
      /\ lastEvent'.type \notin {"submit", "google"} => sent' = sent
    ]_vars

\* The form was submitted in signup mode and then the Google sign-in was
\* used with an email.
C15_Witness ==
  /\ Len(sent) = 2
  /\ sent[1].url = "/signup"
  /\ sent[2].url = "/google_auth"
  /\ lastEvent.type = "google"

OutcomeSucceeded(out) == out.kind = "json" /\ out.success

\* C16: a response with success = false, a rejected request and a response
\* whose body cannot be parsed each show one alert and do not reload the
\* page; the page is reloaded only on a response with success = true, after
\* the alert of handleSuccess.
C16_FailuresAlertNoReload ==
  [][ /\ (lastEvent'.type = "response" /\ ~OutcomeSucceeded(lastEvent'.out)) =>
           /\ Len(alerts') = Len(alerts) + 1
           /\ SubSeq(alerts', 1, Len(alerts)) = alerts
           /\ ~reloaded'
      /\ (reloaded' /\ ~reloaded) =>
           /\ lastEvent'.type = "response"
           /\ OutcomeSucceeded(lastEvent'.out)
           /\ alerts' = Append(alerts, lastEvent'.out.message)
    ]_vars

\* A login was answered with success = false after a Google sign-in was
\* rejected: two alerts, no reload.
C16_Witness ==
  /\ ~reloaded
  /\ Len(sent) = 2
  /\ sent[2].url = "/login"
  /\ inflight = {}
  /\ Len(alerts) = 2
  /\ lastEvent.type = "response"
  /\ lastEvent.out.kind = "json"
  /\ ~lastEvent.out.success

---------------------------------------------------------------------------
(* Claims about the record buffer, the splitting and the order of rows *)

\* C17: a row is emitted only from a buffer whose count of double quotes is
\* even; while the count is odd the buffer is kept, with a newline, for the
\* next physical line to be appended, and no row is emitted; lines whose
\* quote is never closed before the end of the text produce no row.
C17_RowOnlyFromBalancedBuffer ==
  /\ [][ (pc = "loop" /\ i' = i + 1) =>
           LET buf == line \o lines[i + 1]
           IN  /\ quoteCount(buf) % 2 # 0 =>
                    outRows' = outRows /\ line' = buf \o <<LF>>
               /\ outRows' # outRows =>
                    quoteCount(buf) % 2 = 0 /\ line' = <<>> ]_vars
  /\ []( (pc = "done" /\ input.tail # <<>>) =>
           /\ quoteCount(line) % 2 # 0
           /\ outRows = ExpectedRows(input) )

\* A text of two records followed by lines whose quote is never closed,
\* the last line empty, has been parsed: the records gave rows, the
\* buffered lines none.
C17_Witness ==
  /\ pc = "done"
  /\ input.tail # <<>>
  /\ input.trail
  /\ Len(input.recs) = 2
  /\ Len(outRows) = 2
  /\ quoteCount(line) = 1

\* The k-th smallest element of a set of numbers.
NthSmallest(S, k) == CHOOSE x \in S : Cardinality({y \in S : y < x}) = k - 1

\* The positions of the commas of a string that are outside quotes.
OutsideCommas(str) ==
  {k \in 1..Len(str) :
     /\ str[k] = COMMA
     /\ Cardinality({m \in 1..(k - 1) : str[m] = QUOTE}) % 2 = 0}

\* The pieces of a string between its commas outside quotes, without the
\* quote characters.
FieldsOutsideQuotes(str) ==
  LET cuts == OutsideCommas(str)
      n    == Cardinality(cuts)
      from(j) == IF j = 1 THEN 1 ELSE NthSmallest(cuts, j - 1) + 1
      to(j)   == IF j = n + 1 THEN Len(str) ELSE NthSmallest(cuts, j) - 1
      unquoted(s) == SelectSeq(s, LAMBDA c : c # QUOTE)
  IN  [j \in 1..(n + 1) |-> unquoted(SubSeq(str, from(j), to(j)))]

\* C18: a line is split only at its commas outside double quotes, so that
\* the number of fields is one plus the number of those commas; the header
\* line and every complete record are split in this same way, and a record
\* becomes a row when it has as many such fields as the header.
C18_SplitAtCommasOutsideQuotes ==
  /\ []( pc # "start" =>
           /\ headers = FieldsOutsideQuotes(input.header.line)
           /\ Len(headers) = FieldCount(input.header.line) )
  /\ [][ (pc = "loop" /\ i' = i + 1
            /\ quoteCount(line \o lines[i + 1]) % 2 = 0) =>
           LET buf  == line \o lines[i + 1]
               cols == FieldsOutsideQuotes(buf)
           IN  /\ Len(cols) = FieldCount(buf)
               /\ outRows' =
                    IF Len(cols) = Len(headers)
                      THEN Append(outRows, zipRow(headers, cols, 1, EmptyObj))
                      ELSE outRows ]_vars

\* A text whose header and record each hold a comma inside quotes has been
\* parsed into a one-column row.
C18_Witness ==
  /\ pc = "done"
  /\ input.header.line = <<QUOTE,"h",COMMA,"k",QUOTE>>
  /\ Len(headers) = 1
  /\ Len(outRows) >= 1
  /\ outRows[1].val[<<"h",COMMA,"k">>] = <<"a",COMMA,"b">>

\* The complete records of an input that have as many fields as the header,
\* in source order.
RetainedRecords(in) ==
  LET n == FieldCount(in.header.line)
      WellFormed(r) == FieldCount(r.str) = n
  IN  SelectSeq(LogicalRecords(in), WellFormed)

\* C19: the rows are returned in source order, one per retained record:
\* while parsing, rows are only ever appended, and the k-th row returned is
\* the row of the k-th retained record, records of identical content giving
\* a row each.
C19_RowsInSourceOrder ==
  /\ [][ pc = "loop" =>
           \/ outRows' = outRows
           \/ /\ Len(outRows') = Len(outRows) + 1
              /\ SubSeq(outRows', 1, Len(outRows)) = outRows ]_vars
  /\ []( (pc = "done" /\ input.header # ProtoHeader) =>
           /\ Len(outRows) = Len(RetainedRecords(input))
           /\ \A k \in 1..Len(outRows) :
                outRows[k] =
                  RowOf(input.header.names, RetainedRecords(input)[k].fields) )

\* A text with the same record twice and another record between them has
\* been parsed into three rows, the first and the third equal.
C19_Witness ==
  /\ pc = "done"
  /\ Len(input.recs) = 3
  /\ input.recs[1] = input.recs[3]
  /\ input.recs[1] # input.recs[2]
  /\ Len(outRows) = 3
  /\ outRows[1] = outRows[3]
  /\ outRows[1] # outRows[2]

---------------------------------------------------------------------------
(* Claims about renderBasicInfo *)

\* Whether a occurs in b.
OccursIn(a, b) ==
  \E k \in 0..(Len(b) - Len(a)) : \A m \in 1..Len(a) : b[k + m] = a[m]

\* The smallest element of a non-empty set of numbers.
Least(S) == CHOOSE x \in S : \A y \in S : x <= y

\* The rows of the table whose name is the institute, and those whose
\* non-empty name contains it or is contained in it, by the names the
\* records and the institute are written to stand for.
ExactRows(in, t) == {k \in 1..Len(in.recs) : in.recs[k].norm = t}
ContainmentRows(in, t) ==
  {k \in 1..Len(in.recs) :
     /\ in.recs[k].norm # <<>>
     /\ OccursIn(t, in.recs[k].norm) \/ OccursIn(in.recs[k].norm, t)}

\* C20: renderBasicInfo takes the first row of collegeData whose normalized
\* name equals the normalized institute; only when no row matches exactly
\* and the normalized institute is not empty does it take the first row
\* whose non-empty normalized name contains, or is contained in, the
\* normalized institute; otherwise it renders the empty row.  An exact
\* match is thus taken even when a containment match comes earlier.
C20_ExactMatchBeforeContainment ==
  call.fn = "renderBasicInfo" =>
    LET t  == call.arg.norm
        ex == ExactRows(input, t)
        co == ContainmentRows(input, t)
    IN  IF ex # {}
          THEN call.ret = [by |-> "exact", index |-> Least(ex),
                           row |-> collegeData[Least(ex)]]
        ELSE IF t # <<>> /\ co # {}
          THEN call.ret = [by |-> "containment", index |-> Least(co),
                           row |-> collegeData[Least(co)]]
        ELSE call.ret = [by |-> "none", index |-> 0, row |-> EmptyObj]

\* The institute matched the second row exactly although the first row's
\* name contains it.
C20_Witness ==
  /\ call.fn = "renderBasicInfo"
  /\ call.arg.value = <<"A", TAB>>
  /\ Len(collegeData) >= 2
  /\ collegeData[1].val[<<"c","o","l","l","e","g","e","_","n","a","m","e">>]
       = <<"a","b">>
  /\ call.ret.by = "exact"
  /\ call.ret.index = 2

---------------------------------------------------------------------------
(* Claims about the comparison panels *)

\* Whether a table text has a record of the institute (the institute is the
\* first column of the placement and reviews tables).
HasRecordOf(in, inst) == \E k \in 1..Len(in.recs) : in.recs[k].fields[1] = inst

\* A doCompare has rendered the panels.
Compared == panels # NoPanels

\* The institute doCompare rendered on a side.
InstituteOf(s) == panels[IF s = "A" THEN "instituteA" ELSE "instituteB"]

\* C21: renderPlacementAndReview for an institute that has a row neither in
\* placementData nor in reviewsData (the tables may be empty) completes and
\* leaves the em dash in all ten text fields of its side and in its star
\* rating.
C21_NoRowsAllPlaceholders ==
  Compared =>
    \A s \in Sides :
      ( /\ ~HasRecordOf(net[PLACEMENT_FILE].in, InstituteOf(s))
        /\ ~HasRecordOf(net[REVIEWS_FILE].in, InstituteOf(s)) )
      => /\ \A k \in KeySet : compared.text[k][s] = DashText
         /\ compared.stars[s] = DashText

\* Institute C, which no table lists, was compared with institute A, whose
\* placement row gives an average CTC.
C21_Witness ==
  /\ Compared
  /\ InstituteOf("A") = <<"C">>
  /\ InstituteOf("B") = <<"A">>
  /\ \A k \in KeySet : compared.text[k]["A"] = DashText
  /\ compared.stars["A"] = DashText
  /\ compared.text["avgCtc"]["B"] = <<"7">>
  /\ clickRuns = 2

\* The number each text of the model is written to display, in hundredths,
\* or NaN.
Meaning ==
  << [text |-> DashText, is |-> NaN],
     [text |-> <<"n","/","a">>, is |-> NaN],
     [text |-> <<"x">>, is |-> NaN],
     [text |-> <<"1">>, is |-> Num(100)],
     [text |-> <<"2">>, is |-> Num(200)],
     [text |-> <<"3">>, is |-> Num(300)],
     [text |-> <<"4">>, is |-> Num(400)],
     [text |-> <<"5">>, is |-> Num(500)],
     [text |-> <<"0","5">>, is |-> Num(500)],
     [text |-> <<"7">>, is |-> Num(700)],
     [text |-> <<"1","0">>, is |-> Num(1000)],
     [text |-> <<"1","2">>, is |-> Num(1200)],
     [text |-> <<"1","2",SP,"L">>, is |-> Num(1200)],
     [text |-> <<"9",SP,"L">>, is |-> Num(900)],
     [text |-> <<"4",".","5">>, is |-> Num(450)],
     [text |-> <<"4",".","5","0">>, is |-> Num(450)],
     [text |-> <<"7",".","5">>, is |-> Num(750)],
     [text |-> <<"7",".","2","5">>, is |-> Num(725)],
     [text |-> <<"-","1">>, is |-> Num(0 - 100)] >>

MeaningOf(t) == Meaning[CHOOSE k \in 1..Len(Meaning) : Meaning[k].text = t].is

\* The classes the claim gives a field whose sides display a and b.
ClassesFor(k, a, b) ==
  IF a.nan \/ b.nan \/ a = b THEN [A |-> "num", B |-> "num"]
  ELSE IF k = "instRank"
    THEN IF a.hundredths < b.hundredths
           THEN [A |-> "num higher", B |-> "num lower"]
           ELSE [A |-> "num lower", B |-> "num higher"]
  ELSE IF a.hundredths > b.hundredths
    THEN [A |-> "num higher", B |-> "num lower"]
    ELSE [A |-> "num lower", B |-> "num higher"]

\* C27: once doCompare has run, each of the ten fields whose two sides
\* display different numbers has the class 'num higher' on one side and
\* 'num lower' on the other, 'higher' on the larger number, and on the
\* smaller for instRank; a field whose numbers are equal, or one of whose
\* texts is not a number, has the class 'num' on both sides.  The classes
\* are those of the texts displayed in every state.
C27_ClassesReflectDisplayedValues ==
  Compared =>
    \A k \in KeySet :
      /\ \E j \in 1..Len(Meaning) : Meaning[j].text = compared.text[k]["A"]
      /\ \E j \in 1..Len(Meaning) : Meaning[j].text = compared.text[k]["B"]
      /\ compared.class[k] =
           ClassesFor(k, MeaningOf(compared.text[k]["A"]),
                         MeaningOf(compared.text[k]["B"]))

\* A (rank 3, average 7) was compared with B (rank 10, average 12): A has
\* the better rank, B the better average, the medians are equal and the
\* highest CTC of B is no number.
C27_Witness ==
  /\ Compared
  /\ compared.text["instRank"] = [A |-> <<"3">>, B |-> <<"1","0">>]
  /\ compared.class["instRank"] = [A |-> "num higher", B |-> "num lower"]
  /\ compared.text["avgCtc"] = [A |-> <<"7">>, B |-> <<"1","2">>]
  /\ compared.class["avgCtc"] = [A |-> "num lower", B |-> "num higher"]
  /\ compared.class["medCtc"] = [A |-> "num", B |-> "num"]
  /\ compared.text["highCtc"]["B"] = <<"n","/","a">>
  /\ compared.class["highCtc"] = [A |-> "num", B |-> "num"]

C26_EnabledIffAllSelected ==
  [][ ((timerPending /\ ~timerPending') \/ selected' # selected)
        => /\ ~disabled' <=> (\A id \in SelectIds : selected'[id] # <<>>)
           /\ enabledClass' <=> ~disabled' ]_vars

\* The four selects have values and the button is enabled.
C26_Witness ==
  /\ \A id \in SelectIds : selected[id] # <<>>
  /\ ~disabled
  /\ enabledClass
  /\ ~timerPending

---------------------------------------------------------------------------
(* Claims about the mode of the authentication modal *)

\* C22: the response handler of the form branches on isLoginMode as it is
\* when the response is handled, whatever the endpoint the request was sent
\* to: a response with success = true is handled as a login success (alert,
\* reload) when the mode is then login, a /signup request included, and as
\* a signup success (alert, openModal('login'), no reload) when the mode is
\* then signup, a /login request included.
C22_ModeReadWhenResponseHandled ==
  [][ ( /\ lastEvent'.type = "response"
        /\ sent[lastEvent'.req].url \in {"/login", "/signup"}
        /\ OutcomeSucceeded(lastEvent'.out) )
      => /\ alerts' = Append(alerts, lastEvent'.out.message)
         /\ reloaded' = isLoginMode
         /\ isLoginMode'
         /\ ~isLoginMode =>
              /\ submitLabel' = "Login"
              /\ toggleLinkText' = "Sign Up"
    ]_vars

\* A request sent to /signup was answered with success = true after the
\* mode had been switched to login: the page was reloaded.
C22_Witness ==
  /\ lastEvent.type = "response"
  /\ sent[lastEvent.req].url = "/signup"
  /\ OutcomeSucceeded(lastEvent.out)
  /\ reloaded

\* C29: once openModal or toggleAuthMode has run, the submit button reads
\* 'Login' exactly when isLoginMode is true and 'Sign Up' otherwise, the
\* toggle link names the other mode, and the current toggle link has exactly
\* one toggleAuthMode listener; each click on the link switches isLoginMode
\* once, so that two clicks restore the mode and, with it, the labels.
C29_LabelsFollowMode ==
  /\ [](/\ toggleListeners = 1
        /\ submitLabel # MarkupLabel =>
             /\ submitLabel = (IF isLoginMode THEN "Login" ELSE "Sign Up")
             /\ toggleLinkText = (IF isLoginMode THEN "Sign Up" ELSE "Login"))
  /\ [][ /\ lastEvent'.type = "toggle" => isLoginMode' = ~isLoginMode
         /\ lastEvent'.type \in {"open", "toggle"} => submitLabel' # MarkupLabel
       ]_vars

\* The modal was opened and the link clicked, into the signup mode.
C29_Witness ==
  /\ lastEvent.type = "toggle"
  /\ ~isLoginMode
  /\ submitLabel = "Sign Up"
  /\ toggleLinkText = "Login"
  /\ toggleListeners = 1

----------------------------------------------------------------------------
(* Claims about overlapping calls of loadDetails *)

\* What call c writes to the page when its responses have been processed.
RenderedBy(c) ==
  renderDetails(c.name, c.net["college"].body,
    IF c.net["reviews"].ok THEN c.net["reviews"].body ELSE NoReviews,
    IF c.net["placement"].ok THEN c.net["placement"].body ELSE NoPlacement)

\* A step in which loadDetails is called while an earlier call is running.
OverlappingCall ==
  /\ detailCalls # <<>>
  /\ ~CallOver(detailCalls[Len(detailCalls)])
  /\ \E name \in DetailNames :
       detailCalls' =
         Append(SelectSeq(detailCalls, LAMBDA c : ~CallOver(c)),
                [name |-> name, pc |-> "all",
                 net |-> [r \in DetailRequests |-> Requested]])

\* A step in which call k, running before, is over after.
CallEnds(k, how) ==
  /\ k \in 1..Len(detailCalls)
  /\ Len(detailCalls') = Len(detailCalls)
  /\ ~CallOver(detailCalls[k])
  /\ detailCalls'[k].pc = how

\* C24: loadDetails has no guard against overlapping calls: it can be called
\* for Y while the call for X is running; the label then shows Y and stays
\* Y, and the detail fields show the data of whichever call's responses are
\* processed last: each call, the newest or not, writes its own data (or its
\* failure message) over the fields when it ends.
C24_LastProcessedCallShown ==
  /\ [](detailCalls # <<>> => selName = detailName)
  /\ [][ /\ OverlappingCall => view' = ClearedView
         /\ \A k \in 1..Len(detailCalls) :
              /\ CallEnds(k, "rendered") => view' = RenderedBy(detailCalls'[k])
              /\ CallEnds(k, "failed") => view' = renderFailure(view) ]_vars

\* The call for Alpha was still running when loadDetails was called for
\* Beta; Beta's responses were processed first, Alpha's last: the label shows
\* Beta and the fields show Alpha's details.
C24_Witness ==
  /\ Len(detailCalls) = 2
  /\ detailCalls[1].name = "Alpha" /\ detailCalls[1].pc = "rendered"
  /\ detailCalls[2].name = "Beta" /\ detailCalls[2].pc = "rendered"
  /\ detailCalls[1].net["college"].body.institute_name = ""
  /\ detailCalls[2].net["college"].body.institute_name = ""
  /\ selName = "Beta"
  /\ view = RenderedBy(detailCalls[1])
  /\ view.title = "Alpha"
  /\ view # RenderedBy(detailCalls[2])

----------------------------------------------------------------------------
(* Claims about the results of the recommendations page *)

\* A step in which the listener call of request k, running before, is over
\* after.
RequestEnds(k, how) ==
  /\ k \in 1..Len(recRequests)
  /\ Len(recRequests') = Len(recRequests)
  /\ ~RequestOver(recRequests[k])
  /\ recRequests'[k].st = how

\* A response that is a failure without data: the status is not a success
\* (or the response is not OK) and the result has no data, or an empty array.
FailureWithoutData(r) ==
  /\ ~(r.ok /\ r.body.status = "success")
  /\ r.body.data = Undefined \/ r.body.data = Arr(<<>>)

\* The data of a response, none being the empty array.
DataOf(r) == IF r.body.data = Undefined THEN <<>> ELSE r.body.data.items

\* The renderings of an array sorted under the metric of the select.
SortedRenderings(data, selectValue) ==
  { renderResultsList(sorted) :
      sorted \in applyClientSort(data, metricOf(selectValue)) }

\* C23: the response to any request in flight, the newest or not, is
\* handled when it arrives: LAST_RESULTS becomes its data and the list shows
\* that data sorted, so that of two requests in flight the one answered last
\* decides what is held and shown; a request that fails, or whose result is
\* not a success and has no data, leaves LAST_RESULTS as it was (its message
\* empties the list), and a click on Apply Sort renders LAST_RESULTS, the
\* data of the earlier request, again.
C23_LastArrivedResponseHeld ==
  [][ /\ \A k \in 1..Len(recRequests) :
           /\ RequestEnds(k, "done") =>
                IF FailureWithoutData(recRequests'[k].res)
                  THEN LAST_RESULTS' = LAST_RESULTS /\ resultsList'.cards = <<>>
                  ELSE /\ LAST_RESULTS' = DataOf(recRequests'[k].res)
                       /\ resultsList' \in SortedRenderings(LAST_RESULTS', sortMetric)
           /\ RequestEnds(k, "failed") =>
                LAST_RESULTS' = LAST_RESULTS /\ resultsList'.cards = <<>>
      /\ ( /\ UNCHANGED <<recRequests, sortMetric>>
           /\ call' # call
           /\ call'.fn = "applyClientSort" )
         => /\ LAST_RESULTS' = LAST_RESULTS
            /\ resultsList' \in SortedRenderings(LAST_RESULTS, sortMetric) ]_vars

\* The request for CSE was sent first and the request for ECE second, while
\* the first was awaited; both were answered with a success and data, the
\* second first: LAST_RESULTS and the list hold the data for CSE.
C23_Witness ==
  /\ Len(recRequests) = 2
  /\ recRequests[1].program = "CSE" /\ recRequests[2].program = "ECE"
  /\ \A k \in 1..2 :
       /\ recRequests[k].st = "done"
       /\ recRequests[k].res.ok
       /\ recRequests[k].res.body.status = "success"
       /\ recRequests[k].res.body.data = Arr(DataFor(recRequests[k].program))
  /\ LAST_RESULTS = DataFor("CSE")
  /\ resultsList.cards = <<DataFor("CSE")[2], DataFor("CSE")[1]>>
  /\ sortMetric = PREDICTED_CLOSING_RANK

----------------------------------------------------------------------------
(* Claims about applyClientSort *)

\* The value an item has for a metric: for a closing-rank metric that of the
\* first closing-rank key it has.
MetricText(item, metric) ==
  IF metric \in {PREDICTED_CLOSING_RANK, CLOSING_RANK}
    THEN IF item.pcr # Undefined THEN item.pcr ELSE item.cr
    ELSE item.score

\* An item has no value for a metric: no key, or an empty one.
MetricMissing(item, metric) ==
  MetricText(item, metric) \in {Undefined, Str(<<>>)}

\* The numbers the texts of the items stand for.
NumberTexts ==
  { Str(<<"2">>), Str(<<"3">>), Str(<<"5">>), Str(<<"7">>), Str(<<"8">>),
    Str(<<"1","0">>) }
NumberMeant(t) ==
  CASE t = Str(<<"2">>) -> 2
    [] t = Str(<<"3">>) -> 3
    [] t = Str(<<"5">>) -> 5
    [] t = Str(<<"7">>) -> 7
    [] t = Str(<<"8">>) -> 8
    [] t = Str(<<"1","0">>) -> 10

\* ret holds the items of arr, each as often.
PermutationOf(ret, arr) ==
  /\ Len(ret) = Len(arr)
  /\ \A x \in {ret[k] : k \in 1..Len(ret)} \cup {arr[k] : k \in 1..Len(arr)} :
       Cardinality({k \in 1..Len(ret) : ret[k] = x})
         = Cardinality({k \in 1..Len(arr) : arr[k] = x})

\* C28: applyClientSort leaves its argument as it was and returns a
\* permutation of it in which the items with a number for the metric are in
\* ascending order for a closing-rank metric and in descending order for
\* another metric, and no item without a value for the metric comes before
\* an item with one; Reset renders LAST_RESULTS in its own order.
C28_SortedCopyOrderedMissingLast ==
  /\ call.fn = "applyClientSort" =>
       /\ call.argAfter = call.arg
       /\ LAST_RESULTS = call.arg
       /\ PermutationOf(call.ret, call.arg)
       /\ \A m, n \in 1..Len(call.ret) :
            m < n =>
              /\ ~( /\ MetricMissing(call.ret[m], call.metric)
                    /\ ~MetricMissing(call.ret[n], call.metric) )
              /\ ( /\ MetricText(call.ret[m], call.metric) \in NumberTexts
                   /\ MetricText(call.ret[n], call.metric) \in NumberTexts )
                 => IF call.metric \in {PREDICTED_CLOSING_RANK, CLOSING_RANK}
                      THEN NumberMeant(MetricText(call.ret[m], call.metric))
                             <= NumberMeant(MetricText(call.ret[n], call.metric))
                      ELSE NumberMeant(MetricText(call.ret[m], call.metric))
                             >= NumberMeant(MetricText(call.ret[n], call.metric))
  /\ call.fn = "renderResultsList" =>
       /\ LAST_RESULTS = call.arg
       /\ resultsList.cards = LAST_RESULTS

=========================================================================
